---- MODULE Spec2Model ----
(***************************************************************************)
(* Model of the settlement-and-mint pipeline of xlayer-402.                *)
(*                                                                         *)
(* Specification Spec: the POST /verify handler of src/src/routes/x402.ts  *)
(* run by NumReqs concurrent requests against one Redis ledger.  Every     *)
(* `await` of the handler is one atomic step, so the steps of different    *)
(* requests interleave exactly where the Node.js event loop can switch     *)
(* between them.  Redis commands are atomic and do not fail; the           *)
(* settlement provider and the swap service are external and answer        *)
(* nondeterministically.  A request arrives with its first step, the       *)
(* nonce check.  A local of the handler is reset once the code no longer   *)
(* reads it; hist counts the calls each request has made and is read by    *)
(* the properties only.                                                    *)
(*                                                                         *)
(* The other specifications model one component each, on variables of      *)
(* their own, and leave the variables of the other components at rest:     *)
(* SpecQuota (POST /verify next to other clients), SpecRecords (the        *)
(* mint-record list), SpecRetry and SpecRetryLive (SmartRetryManager),     *)
(* SpecSmartRetry (DexRetryManager.smartRetry), SpecActive (the            *)
(* activeRetries map under concurrent calls), SpecBreaker                  *)
(* (CircuitBreaker), SpecCache (SmartCacheManager), SpecSwap               *)
(* (DexSwapService), SpecEvents and SpecHistory (DexEventEmitter),         *)
(* SpecTime (lib/timeSync.ts), SpecOkx and SpecOkxLive                     *)
(* (OkxClient.request).                                                    *)
(***************************************************************************)
EXTENDS Integers, Sequences, FiniteSets, TLC

(***************************************************************************)
(* Bounds of the model                                                     *)
(***************************************************************************)
NumReqs == 2
NumNonces == 2
NumAddrs == 1
MaxResults == 2
MaxTicks == 2
TickSeconds == 43200
StartGap == 1

Reqs == 1..NumReqs
Nonces == 1..NumNonces
Addrs == 1..NumAddrs

\* SpecRecords: concurrent callers of saveMintRecord for one address, the
\* appends they make, and how far below its cap the list starts
NumSavers == 2
MaxAppends == 3
StartSlack == 2

Savers == 1..NumSavers

\* SpecRetry: the largest maxAttempts a retry configuration carries
MaxAttemptsBound == 3

\* SpecBreaker: concurrent callers of one circuit breaker, the largest
\* threshold it is built with, and how long the clock runs
NumCallers == 2
MaxThreshold == 2
MaxBreakerTicks == 3
BreakerTickMs == 30000
BreakerStartMs == 60000

Callers == 1..NumCallers

\* SpecCache: the largest maxSize of the cache, how often one entry is read,
\* and how long the clock runs
MaxCacheSize == 2
MaxAccessCount == 2
MaxCacheTicks == 2
CacheTickMs == 20000

\* SpecSwap: concurrent calls of one DexSwapService and how long the clock
\* runs
NumRuns == 2
MaxSwapTicks == 2
SwapTickMs == 20000

Runs == 1..NumRuns
MaxSets == 2
MaxSmartInvocations == 6
NumActiveCalls == 2
NumSyncCallers == 2
MaxSyncs == 3
MaxSyncTicks == 3
SyncTickMs == 30001
StartTimeMs == 1000
MaxListenerEmits == 1
MaxHistoryEmits == 1002

(***************************************************************************)
(* Program constants                                                       *)
(***************************************************************************)
DefaultMaxMintCount == 10
NonceTtlSeconds == 86400
MaxMintRecords == 50
MintCountPerRecord == 1
RecordsDefaultLimit == 10
RecordsMaxLimit == 50

\* lib/dex/retry.ts
DefaultRetryableErrors ==
  {"NETWORK_ERROR", "API_ERROR", "GAS_ESTIMATION_FAILED"}
DefaultRetryConfig ==
  [maxAttempts |-> 3, backoffMs |-> 1000, backoffMultiplier |-> 2,
   retryableErrors |-> DefaultRetryableErrors,
   strategy |-> "exponential_backoff"]
MaxDelayMs == 30000
RetryStrategies ==
  {"fixed_delay", "exponential_backoff", "linear_backoff", "jittered_backoff"}
NoError == [kind |-> "none", code |-> "", words |-> {}, at |-> 0]
NoResult == [success |-> FALSE, result |-> 0, error |-> NoError,
             attempts |-> 0]
DefaultRecoveryTimeMs == 60000

\* cache manager
DefaultQuoteTtl == 30000
DefaultCacheConfig == [maxSize |-> 100, strategy |-> "lru"]
CacheStrategies == {"lru", "lfu", "fifo", "ttl_only"}
CacheKeys == {"a", "ab", "b"}
CacheKeysWithEmpty == {"", "a", "ab"}
CachePrefixes == {"", "a", "b"}
CacheValues == {1, 2}
CacheTtls == {DefaultQuoteTtl \div 2, DefaultQuoteTtl}
NoKey == "undefined"
NoReturn == [hit |-> FALSE, data |-> 0]
NoSet == [key |-> NoKey, data |-> 0, ttl |-> 0, at |-> 0, evicted |-> FALSE]
DefaultBreakerParams ==
  [failureThreshold |-> 5, recoveryTimeMs |-> DefaultRecoveryTimeMs,
   successThreshold |-> 2]

\* dexRetryManager.networkRetry
NetworkRetryConfig ==
  [maxAttempts |-> 3, backoffMs |-> 1000, backoffMultiplier |-> 2,
   retryableErrors |-> {"NETWORK_ERROR"}, strategy |-> "exponential_backoff"]
\* dexRetryManager.apiRetry; its backoffMultiplier 1.5 is 3 / 2
ApiRetryConfig ==
  [maxAttempts |-> 5, backoffMs |-> 500, backoffMultiplier |-> 3,
   backoffDivisor |-> 2, retryableErrors |-> {"API_ERROR"},
   strategy |-> "jittered_backoff"]
\* dexRetryManager.transactionRetry
TransactionRetryConfig ==
  [maxAttempts |-> 2, backoffMs |-> 2000, backoffMultiplier |-> 2,
   retryableErrors |-> {"GAS_ESTIMATION_FAILED"}, strategy |-> "fixed_delay"]
\* lib/okxClient.ts
OkxMaxRetries == 3
OkxBackoffBaseMs == 500
\* an answer to a transmission: the HTTP status (0 when axios got no
\* response) and the code of the body
OkxAnswers ==
  {[status |-> 200, code |-> "0"], [status |-> 200, code |-> "51000"],
   [status |-> 200, code |-> "50011"], [status |-> 429, code |-> "50011"],
   [status |-> 429, code |-> ""], [status |-> 400, code |-> "50011"],
   [status |-> 500, code |-> "51000"], [status |-> 0, code |-> ""]}
NoOkxResult == [kind |-> "none", after |-> 0]
\* lib/timeSync.ts
MaxStaleMs == 60000
MaxOffsetBeforeForce == 5000
NumEndpoints == 2
SyncCallers == 1..NumSyncCallers
\* serverTs - Date.now() of an answer of the time endpoint
Skews == {0, 3000, 7000}
NoSyncCall == [pc |-> "idle", awaits |-> 0, last |-> "none"]
\* the concurrent executeWithRetry calls of one SmartRetryManager
ActiveCalls == 1..NumActiveCalls
OperationIds == {"", "op1", "op2"}
NoRetryCall == [pc |-> "idle", id |-> "", attempt |-> 0]
\* smartRetry has not selected a retry manager
NoManager == [maxAttempts |-> 0, backoffMs |-> 0, backoffMultiplier |-> 1,
              retryableErrors |-> {}, strategy |-> "none"]
\* the options createXLayerUsdcWokbSwapService builds the service with
DefaultSwapOptions ==
  [enableMetrics |-> TRUE, enableEvents |-> TRUE, simulationEnabled |-> TRUE,
   hasWallet |-> TRUE]
NativeToken == "0xEeeeeEeeeEeEeeEeEeEeeEEEeeeeEeeeeeeeEEeE"
NoSwapRequest == [fromTokenAddress |-> "", amount |-> "", walletAddress |-> ""]
NoSwapResult == [success |-> FALSE, errorCode |-> "", quote |-> 0,
                 cached |-> FALSE]
NoRun == [kind |-> "none", pc |-> "idle", request |-> NoSwapRequest,
          attempt |-> 0, quote |-> 0, txData |-> "none", receipt |-> "none",
          balance |-> "none", allowance |-> "none", result |-> NoSwapResult]
\* the error codes the calls of the model end with
SwapErrorCodes ==
  {"INVALID_PARAMETERS", "NETWORK_ERROR", "API_ERROR", "TRANSACTION_FAILED",
   "UNKNOWN_ERROR"}
\* the metrics as constructed; a code that errorBreakdown lacks counts 0
NoMetrics ==
  [totalSwaps |-> 0, successfulSwaps |-> 0, failedSwaps |-> 0,
   volumeUpdates |-> 0, gasUpdates |-> 0,
   errorBreakdown |-> [code \in SwapErrorCodes |-> 0]]

\* DexEventEmitter.maxHistorySize
MaxHistorySize == 1000
\* the event types, callbacks and once() wrappers of the model
EventTypes == {"QUOTE_REQUESTED", "SWAP_COMPLETED"}
HistoryEventTypes == {"SWAP_COMPLETED"}
Callbacks == {"cb1", "cb2"}
OnceWrappers == {"once1"}
NoOp == [op |-> "none", type |-> "none", callback |-> "none",
         notified |-> {}, seen |-> FALSE]

TokenMint == "token-mint"
OtherTemplate == "airdrop-basic"
Templates == {TokenMint, OtherTemplate}

NoRecord == [present |-> FALSE]
NoConfig == [present |-> FALSE]
NoMint == [present |-> FALSE]
NoReq == [nonce |-> 0, templateId |-> "", from |-> 0]
NoLocals == [maxCount |-> 0, settleResult |-> << >>, swapSuccess |-> FALSE]
NoResp == [http |-> 0, error |-> "", payment_record_id |-> 0,
           details |-> "", mint_record |-> NoMint,
           currentCount |-> 0, maxCount |-> 0]
NoHist == [settleCalls |-> 0, paymentWrites |-> 0, incrs |-> 0,
           swapCalls |-> 0, swapResult |-> "none", mintAppends |-> 0,
           overlapped |-> {},
           quotaFullAtArrival |-> FALSE, configCreated |-> FALSE]

VARIABLES
  now,            \* wall clock, seconds
  payToSet,       \* process.env.X402_PAY_TO is configured
  paymentNonce,   \* Redis payment:nonce:{nonce}
  templateConfig, \* Redis template:config:token-mint
  mintCount,      \* Redis mint:token-mint:count
  mintRecords,    \* Redis mint:records:{address}, newest first
  pc,             \* position of each /verify request in the handler
  req,            \* the parsed request body of each request
  loc,            \* the handler's local variables
  resp,           \* the HTTP response sent for each request
  hist            \* per-request record of the calls it has made

\* the state of POST /verify
verifyVars == <<now, payToSet, paymentNonce, templateConfig, mintCount,
                mintRecords, pc, req, loc, resp, hist>>

VARIABLES
  recordsList,    \* Redis mint:records:{address} of one address, newest first
  saverPc,        \* position of each caller of saveMintRecord
  appended,       \* number of lPush calls made on the list so far
  recordsCount    \* meta.count of the last answer of the records endpoint

recordsVars == <<recordsList, saverPc, appended, recordsCount>>

VARIABLES
  rtConfig,       \* SmartRetryManager: config and strategy of the call
  rtScript,       \* what the operation does at its 1st, 2nd, ... invocation
  rtInvocations,  \* number of times the operation has been invoked
  rtPc,           \* position of the executeWithRetry call
  rtAttempt,      \* context.attempt
  rtLastError,    \* lastError of executeAttempts
  rtDelays,       \* context.delays
  rtResult,       \* the RetryResult returned
  rtThrown        \* the errors the operation has thrown, in order

retryVars == <<rtConfig, rtScript, rtInvocations, rtPc, rtAttempt,
               rtLastError, rtDelays, rtResult, rtThrown>>

VARIABLES
  breaker,        \* CircuitBreaker: state, failureCount, successCount,
                  \* lastFailureTime
  breakerParams,  \* failureThreshold, recoveryTimeMs, successThreshold
  breakerNow,     \* Date.now(), milliseconds
  breakerCall,    \* each caller's execute(): position and last outcome
  breakerStreak,  \* failed operations since the last success or reset
  breakerTrials   \* operations that succeeded with the breaker HALF_OPEN
                  \* since it was entered, or since the last failure

breakerVars == <<breaker, breakerParams, breakerNow, breakerCall,
                 breakerStreak, breakerTrials>>

VARIABLES
  cache,          \* SmartCacheManager: the entries of the Map, in Map order
  accessOrder,    \* the keys in order of use, for LRU
  cacheConfig,    \* maxSize and eviction strategy
  cacheNow,       \* Date.now(), milliseconds
  cacheRet,       \* the last call and what it returned
  cacheLastSet,   \* the last set(), until a delete or clear follows it
  cacheUseOrder   \* under LRU, the keys set or read with a hit since the
                  \* last clear(), in the order of their last such use

cacheVars == <<cache, accessOrder, cacheConfig, cacheNow, cacheRet,
               cacheLastSet, cacheUseOrder>>

VARIABLES
  swOptions,      \* DexSwapService.options, and whether a wallet is set
  swRun,          \* each call of getQuote or executeSwap: kind, position,
                  \* request, retry attempt, quote, built transaction, result
  swCache,        \* the entries of the service's QuoteCacheManager
  swNow,          \* Date.now(), milliseconds
  swMetrics,      \* DexSwapService.metrics
  swEvents,       \* the event types each call has emitted, in order
  swChain,        \* the transactions each call has broadcast, in order
  swAggCalls,     \* the aggregator calls each call has made, in order
  swFetched       \* the number of quotes the aggregator has returned

swapVars == <<swOptions, swRun, swCache, swNow, swMetrics, swEvents, swChain,
              swAggCalls, swFetched>>

VARIABLES
  evListeners,    \* DexEventEmitter.listeners: for each event type the Set
                  \* object stored under it, 0 when there is no entry
  evSets,         \* the Set objects that on() has created, by identity
  evGlobal,       \* DexEventEmitter.globalListeners
  evUnsubs,       \* the unsubscribe functions that on() and once() returned:
                  \* the Set object, the event type and the callback each
                  \* one has captured
  evHistory,      \* DexEventEmitter.eventHistory
  evEmitted,      \* the number of emit calls so far
  evLast          \* the last call: its arguments, and for an emit the
                  \* callbacks notified and whether they could see the event
                  \* in the history

eventVars == <<evListeners, evSets, evGlobal, evUnsubs, evHistory, evEmitted,
               evLast>>

VARIABLES
  arCalls,        \* the executeWithRetry calls made on one SmartRetryManager:
                  \* where each one is, its operationId, context.attempt
  arActive        \* SmartRetryManager.activeRetries: for each operationId
                  \* the call whose context is stored under it, 0 when
                  \* there is no entry

activeVars == <<arCalls, arActive>>

VARIABLES
  tsNow,          \* Date.now()
  tsOffset,       \* timeSync.offsetMs
  tsLastSync,     \* timeSync.lastSync
  tsSyncPromise,  \* timeSync.syncPromise: the promise it holds, 0 for null
  tsPromises,     \* the promises ensureTimeSync has created, in order: how
                  \* far the chain fetchServerTime().catch().finally() has
                  \* run, the endpoint being asked, and how it settled
  tsCallers       \* the callers of ensureTimeSync: where each one is, the
                  \* promise it awaits or awaited, how its last call ended

timeVars == <<tsNow, tsOffset, tsLastSync, tsSyncPromise, tsPromises,
              tsCallers>>

VARIABLES
  okPc,           \* where the call of OkxClient.request is
  okAttempt,      \* the loop variable attempt of request
  okAnswers,      \* the answers to the transmissions made so far, in order
  okSleeps,       \* the backoffs slept so far, in order
  okResult        \* what request has returned or thrown

okxVars == <<okPc, okAttempt, okAnswers, okSleeps, okResult>>

\* the components that the specifications above leave alone
moreVars == <<eventVars, activeVars, timeVars, okxVars>>

vars == <<verifyVars, recordsVars, retryVars, breakerVars, cacheVars,
          swapVars, moreVars>>

\* what a step of POST /verify leaves alone
outsideVerify ==
  <<recordsVars, retryVars, breakerVars, cacheVars, swapVars, moreVars>>

\* what a step on the mint-record list leaves alone
outsideRecords ==
  <<verifyVars, retryVars, breakerVars, cacheVars, swapVars, moreVars>>

\* what a step of the retry engine leaves alone
outsideRetry ==
  <<verifyVars, recordsVars, breakerVars, cacheVars, swapVars, moreVars>>

\* what a step of the circuit breaker leaves alone
outsideBreaker ==
  <<verifyVars, recordsVars, retryVars, cacheVars, swapVars, moreVars>>

\* what a step of the swap service leaves alone
outsideSwap ==
  <<verifyVars, recordsVars, retryVars, breakerVars, cacheVars, moreVars>>

\* what a step of the event emitter leaves alone
outsideEvents ==
  <<verifyVars, recordsVars, retryVars, breakerVars, cacheVars, swapVars,
    activeVars, timeVars, okxVars>>

\* what a step of OkxClient.request leaves alone
outsideOkx ==
  <<verifyVars, recordsVars, retryVars, breakerVars, cacheVars, swapVars,
    eventVars, activeVars, timeVars>>

\* what a step of the time synchronisation leaves alone
outsideTime ==
  <<verifyVars, recordsVars, retryVars, breakerVars, cacheVars, swapVars,
    eventVars, activeVars, okxVars>>

\* what a step of the tracked executeWithRetry calls leaves alone
outsideActive ==
  <<verifyVars, recordsVars, retryVars, breakerVars, cacheVars, swapVars,
    eventVars, timeVars, okxVars>>

\* what a step of the cache leaves alone
outsideCache ==
  <<verifyVars, recordsVars, retryVars, breakerVars, swapVars, moreVars>>

ledger == <<paymentNonce, templateConfig, mintCount, mintRecords>>

(***************************************************************************)
(* Helpers of routes/x402.ts                                               *)
(***************************************************************************)
\* mutant: the existence test never reports a stored key
checkNonceExistsNever(n) == FALSE

\* redisClient.exists(payment:nonce:n) > 0; a key past its setEx expiry is gone
checkNonceExists(n) ==
  paymentNonce[n].present /\ now < paymentNonce[n].expireAt

\* mutant: the hash is written with a quota of zero
InitialTemplateConfigNoQuota ==
  [present |-> TRUE, max_mint_count |-> 0]

\* the hash written by initializeTemplateConfig when the key is absent
InitialTemplateConfig ==
  [present |-> TRUE, max_mint_count |-> DefaultMaxMintCount]

\* parseInt(config.max_mint_count || '10')
ParseMaxCount(config) ==
  IF config.present THEN config.max_mint_count ELSE DefaultMaxMintCount

canMint(currentCount, maxCount) == currentCount < maxCount

isCompleted(currentCount, maxCount) == currentCount >= maxCount

\* mutant: the quota gate is off by one
MintLimitReachedOffByOne(currentCount, maxCount) == currentCount > maxCount

\* the gate of the handler: !limitCheck.canMint || limitCheck.isCompleted
MintLimitReached(currentCount, maxCount) ==
  ~canMint(currentCount, maxCount) \/ isCompleted(currentCount, maxCount)

\* redisClient.incr
incrementMintCount(count) == count + 1

\* mutant: every result has to be a success
settlementSuccessEvery(settleResult) ==
  \A i \in DOMAIN settleResult : settleResult[i]

\* settleResult.some(result => result.success)
settlementSuccess(settleResult) ==
  \E i \in DOMAIN settleResult : settleResult[i]

\* savePaymentRecord: setEx(nonceKey, 86400, {...paymentData, created_at, status})
PaymentRecord(r) ==
  [present |-> TRUE, nonce |-> req[r].nonce, from_address |-> req[r].from,
   template_id |-> req[r].templateId, created_at |-> now, status |-> "paid",
   expireAt |-> now + NonceTtlSeconds]

\* saveMintRecord builds {id, ...mintData, created_at, status: 'success'}:
\* the status written last replaces whatever status mintData carries
saveMintRecordStatus(mintDataStatus) == "success"

\* the mintData of the handler's step 7 carries no status; swap_result is
\* the response of executeSwap, whatever its success flag
MintRecord(r) ==
  [id |-> now, payment_id |-> now, by |-> r, template_id |-> req[r].templateId,
   user_address |-> req[r].from, mint_count |-> MintCountPerRecord,
   tx_hash |-> IF loc[r].swapSuccess THEN r ELSE 0,
   swap_result |-> [success |-> loc[r].swapSuccess],
   created_at |-> now, status |-> saveMintRecordStatus("")]

\* redisClient.lPush
lPush(list, record) == <<record>> \o list

\* redisClient.lTrim(key, 0, 49)
lTrim(list) ==
  IF Len(list) > MaxMintRecords THEN SubSeq(list, 1, MaxMintRecords) ELSE list

(***************************************************************************)
(* Responses of the handler                                                *)
(***************************************************************************)
RespError(http, error) == [NoResp EXCEPT !.http = http, !.error = error]

RespMintLimit(currentCount, maxCount) ==
  [NoResp EXCEPT !.http = 400, !.error = "MINT_LIMIT_REACHED",
                 !.currentCount = currentCount, !.maxCount = maxCount]

RespMintFailed(r) ==
  [NoResp EXCEPT !.http = 500, !.error = "MINT_FAILED",
                 !.payment_record_id = req[r].nonce,
                 !.details = "mint failed"]

RespSuccess(r, mint) ==
  [NoResp EXCEPT !.http = 200, !.payment_record_id = req[r].nonce,
                 !.mint_record = mint]

\* where the handler continues after each outcome
AfterNonceGate(templateId) ==
  IF templateId = TokenMint THEN "cfgExists" ELSE "settle"

\* mutant: a failed settlement is tried again
AfterSettleFailedRetry == "settle"

\* `return res.status(400)` after a settlement without success
AfterSettleFailed == "done"

\* mutant: the counter is incremented before the payment is recorded
AfterSettleSuccessIncrFirst == "incr"

\* a successful settlement falls through to savePaymentRecord
AfterSettleSuccess == "savePayment"

\* mutant: the mint leg is entered whatever the template
AfterSavePaymentAlwaysMints(templateId) == "incr"

\* 5. `if (templateId === 'token-mint')`, else 8. the success response
AfterSavePayment(templateId) ==
  IF templateId = TokenMint THEN "incr" ELSE "done"

\* mutant: a failed swap gives the slot back
CountAfterSwapRollback(count, success) ==
  IF success THEN count ELSE count - 1

\* neither catch block of the mint leg touches the counter again
CountAfterSwap(count, success) == count

InFlight(r) == pc[r] \notin {"idle", "done"}

\* nonces are interchangeable: a request carries a nonce already seen or
\* the next unused one
UsedNonces == {req[q].nonce : q \in {q \in Reqs : pc[q] # "idle"}}

NonceChoices == {n \in Nonces : \A m \in Nonces : m < n => m \in UsedNonces}

\* no /verify request has arrived and the ledger is empty
VerifyIdle ==
  /\ now = 0
  /\ payToSet = FALSE
  /\ paymentNonce = [n \in Nonces |-> NoRecord]
  /\ templateConfig = NoConfig
  /\ mintCount = 0
  /\ mintRecords = [a \in Addrs |-> << >>]
  /\ pc = [r \in Reqs |-> "idle"]
  /\ req = [r \in Reqs |-> NoReq]
  /\ loc = [r \in Reqs |-> NoLocals]
  /\ resp = [r \in Reqs |-> NoResp]
  /\ hist = [r \in Reqs |-> NoHist]

\* the cache as constructed, empty
CacheIdle ==
  /\ cache = << >>
  /\ accessOrder = << >>
  /\ cacheConfig = DefaultCacheConfig
  /\ cacheNow = 0
  /\ cacheRet = NoReturn
  /\ cacheLastSet = NoSet
  /\ cacheUseOrder = << >>

\* the swap service as constructed, unused
SwapIdle ==
  /\ swOptions = DefaultSwapOptions
  /\ swRun = [r \in Runs |-> NoRun]
  /\ swCache = << >>
  /\ swNow = 0
  /\ swMetrics = NoMetrics
  /\ swEvents = [r \in Runs |-> << >>]
  /\ swChain = [r \in Runs |-> << >>]
  /\ swAggCalls = [r \in Runs |-> << >>]
  /\ swFetched = 0

\* the event emitter as constructed
EventsIdle ==
  /\ evListeners = [type \in EventTypes |-> 0]
  /\ evSets = << >>
  /\ evGlobal = {}
  /\ evUnsubs = {}
  /\ evHistory = << >>
  /\ evEmitted = 0
  /\ evLast = NoOp

\* no executeWithRetry call has been made with an operationId
ActiveIdle ==
  /\ arCalls = [c \in ActiveCalls |-> NoRetryCall]
  /\ arActive = [id \in OperationIds |-> 0]

\* the module timeSync as loaded
TimeIdle ==
  /\ tsNow = StartTimeMs
  /\ tsOffset = 0
  /\ tsLastSync = 0
  /\ tsSyncPromise = 0
  /\ tsPromises = << >>
  /\ tsCallers = [c \in SyncCallers |-> NoSyncCall]

\* OkxClient.request has not been called
OkxIdle ==
  /\ okPc = "idle"
  /\ okAttempt = 0
  /\ okAnswers = << >>
  /\ okSleeps = << >>
  /\ okResult = NoOkxResult

MoreIdle == EventsIdle /\ ActiveIdle /\ TimeIdle /\ OkxIdle

\* the circuit breaker as constructed by DexRetryManager, unused
BreakerIdle ==
  /\ breaker = [state |-> "CLOSED", failureCount |-> 0, successCount |-> 0,
                lastFailureTime |-> 0]
  /\ breakerParams = DefaultBreakerParams
  /\ breakerNow = 0
  /\ breakerCall = [c \in Callers |-> [pc |-> "idle", outcome |-> "none",
                                        trial |-> FALSE]]
  /\ breakerStreak = 0
  /\ breakerTrials = 0

\* executeWithRetry has not been called
RetryIdle ==
  /\ rtConfig = DefaultRetryConfig
  /\ rtScript = << >>
  /\ rtInvocations = 0
  /\ rtPc = "idle"
  /\ rtAttempt = 0
  /\ rtLastError = NoError
  /\ rtDelays = << >>
  /\ rtResult = NoResult
  /\ rtThrown = << >>

\* no call of saveMintRecord or of the records endpoint is under way
RecordsIdle ==
  /\ recordsList = << >>
  /\ saverPc = [c \in Savers |-> "idle"]
  /\ appended = 0
  /\ recordsCount = 0

(***************************************************************************)
(* Initial state: an empty ledger, or a ledger on which earlier requests   *)
(* have already consumed most of the quota.                                *)
(***************************************************************************)
Init ==
  /\ now = 0
  /\ payToSet \in BOOLEAN
  /\ paymentNonce = [n \in Nonces |-> NoRecord]
  /\ \/ templateConfig = NoConfig /\ mintCount = 0
     \/ /\ templateConfig = InitialTemplateConfig
        /\ mintCount \in (DefaultMaxMintCount - StartGap)..DefaultMaxMintCount
  /\ mintRecords = [a \in Addrs |-> << >>]
  /\ pc = [r \in Reqs |-> "idle"]
  /\ req = [r \in Reqs |-> NoReq]
  /\ loc = [r \in Reqs |-> NoLocals]
  /\ resp = [r \in Reqs |-> NoResp]
  /\ hist = [r \in Reqs |-> NoHist]
  /\ RecordsIdle
  /\ RetryIdle
  /\ BreakerIdle
  /\ CacheIdle
  /\ SwapIdle
  /\ MoreIdle

(***************************************************************************)
(* POST /verify                                                            *)
(***************************************************************************)
\* x402RequestSchema.parse throws a ZodError
ParseFails(r) ==
  /\ pc[r] = "idle"
  /\ \A q \in Reqs : q < r => pc[q] # "idle"
  /\ pc' = [pc EXCEPT ![r] = "done"]
  /\ resp' = [resp EXCEPT ![r] = RespError(400, "VALIDATION_ERROR")]
  /\ UNCHANGED <<now, payToSet, ledger, req, loc, hist>>
  /\ UNCHANGED outsideVerify

\* 1. parse, then checkNonceExists
CheckNonce(r) ==
  /\ pc[r] = "idle"
  /\ \A q \in Reqs : q < r => pc[q] # "idle"
  /\ \E n \in NonceChoices, t \in Templates, a \in Addrs :
       /\ req' = [req EXCEPT ![r] = [nonce |-> n, templateId |-> t, from |-> a]]
       /\ hist' = [hist EXCEPT
                     ![r].overlapped = {q \in Reqs : InFlight(q)},
                     ![r].quotaFullAtArrival =
                        mintCount >= ParseMaxCount(templateConfig)]
       /\ IF checkNonceExists(n)
            THEN /\ pc' = [pc EXCEPT ![r] = "done"]
                 /\ resp' = [resp EXCEPT ![r] = RespError(400, "DUPLICATE_NONCE")]
            ELSE /\ pc' = [pc EXCEPT ![r] = AfterNonceGate(t)]
                 /\ UNCHANGED resp
  /\ UNCHANGED <<now, payToSet, ledger, loc>>
  /\ UNCHANGED outsideVerify

\* 2. checkMintLimit: initializeTemplateConfig, redisClient.exists(configKey)
CfgExists(r) ==
  /\ pc[r] = "cfgExists"
  /\ pc' = [pc EXCEPT ![r] = IF templateConfig.present THEN "cfgGet" ELSE "cfgSet"]
  /\ UNCHANGED <<now, payToSet, ledger, req, loc, resp, hist>>
  /\ UNCHANGED outsideVerify

\* initializeTemplateConfig, redisClient.hSet(configKey, config)
CfgSet(r) ==
  /\ pc[r] = "cfgSet"
  /\ templateConfig' = InitialTemplateConfig
  /\ hist' = [hist EXCEPT ![r].configCreated = ~templateConfig.present]
  /\ pc' = [pc EXCEPT ![r] = "cfgGet"]
  /\ UNCHANGED <<now, payToSet, paymentNonce, mintCount, mintRecords,
                 req, loc, resp>>
  /\ UNCHANGED outsideVerify

\* checkMintLimit, redisClient.hGetAll(configKey)
CfgGet(r) ==
  /\ pc[r] = "cfgGet"
  /\ loc' = [loc EXCEPT ![r].maxCount = ParseMaxCount(templateConfig)]
  /\ pc' = [pc EXCEPT ![r] = "getCount"]
  /\ UNCHANGED <<now, payToSet, ledger, req, resp, hist>>
  /\ UNCHANGED outsideVerify

\* checkMintLimit, getCurrentMintCount, then the quota gate of the handler
GetCount(r) ==
  /\ pc[r] = "getCount"
  /\ loc' = [loc EXCEPT ![r].maxCount = 0]
  /\ IF MintLimitReached(mintCount, loc[r].maxCount)
       THEN /\ pc' = [pc EXCEPT ![r] = "done"]
            /\ resp' = [resp EXCEPT ![r] = RespMintLimit(mintCount, loc[r].maxCount)]
       ELSE /\ pc' = [pc EXCEPT ![r] = "settle"]
            /\ UNCHANGED resp
  /\ UNCHANGED <<now, payToSet, ledger, req, hist>>
  /\ UNCHANGED outsideVerify

\* 3. okxClient.settle throws
SettleThrows(r) ==
  /\ pc[r] = "settle"
  /\ hist' = [hist EXCEPT ![r].settleCalls = @ + 1]
  /\ pc' = [pc EXCEPT ![r] = "done"]
  /\ resp' = [resp EXCEPT ![r] = RespError(500, "PAYMENT_ERROR")]
  /\ UNCHANGED <<now, payToSet, ledger, req, loc>>
  /\ UNCHANGED outsideVerify

\* 3. okxClient.settle returns a list of per-attempt results
Settle(r) ==
  /\ pc[r] = "settle"
  /\ \E len \in 0..MaxResults : \E settleResult \in [1..len -> BOOLEAN] :
       /\ hist' = [hist EXCEPT ![r].settleCalls = @ + 1]
       /\ loc' = [loc EXCEPT ![r].settleResult = settleResult]
       /\ IF settlementSuccess(settleResult)
            THEN /\ pc' = [pc EXCEPT ![r] = AfterSettleSuccess]
                 /\ UNCHANGED resp
            ELSE /\ pc' = [pc EXCEPT ![r] = AfterSettleFailed]
                 /\ resp' = [resp EXCEPT ![r] = RespError(400, "SETTLEMENT_FAILED")]
  /\ UNCHANGED <<now, payToSet, ledger, req>>
  /\ UNCHANGED outsideVerify

\* 4. savePaymentRecord; a request of another template is answered here
SavePayment(r) ==
  /\ pc[r] = "savePayment"
  /\ paymentNonce' = [paymentNonce EXCEPT ![req[r].nonce] = PaymentRecord(r)]
  /\ hist' = [hist EXCEPT ![r].paymentWrites = @ + 1]
  /\ pc' = [pc EXCEPT ![r] = AfterSavePayment(req[r].templateId)]
  /\ resp' = [resp EXCEPT ![r] =
                IF AfterSavePayment(req[r].templateId) = "done"
                  THEN RespSuccess(r, NoMint) ELSE @]
  /\ loc' = [loc EXCEPT ![r].settleResult = << >>]
  /\ UNCHANGED <<now, payToSet, templateConfig, mintCount, mintRecords, req>>
  /\ UNCHANGED outsideVerify

\* 5. incrementMintCount, then the check of process.env.X402_PAY_TO
Incr(r) ==
  /\ pc[r] = "incr"
  /\ mintCount' = incrementMintCount(mintCount)
  /\ hist' = [hist EXCEPT ![r].incrs = @ + 1]
  /\ IF payToSet
       THEN /\ pc' = [pc EXCEPT ![r] = "executeSwap"]
            /\ UNCHANGED resp
       ELSE /\ pc' = [pc EXCEPT ![r] = "done"]
            /\ resp' = [resp EXCEPT ![r] = RespMintFailed(r)]
  /\ UNCHANGED <<now, payToSet, paymentNonce, templateConfig, mintRecords,
                 req, loc>>
  /\ UNCHANGED outsideVerify

\* 6. dexService.executeSwap: it catches every error and returns
\*    a response whose success flag tells the outcome
ExecuteSwap(r) ==
  /\ pc[r] = "executeSwap"
  /\ \E success \in BOOLEAN :
       /\ loc' = [loc EXCEPT ![r].swapSuccess = success]
       /\ hist' = [hist EXCEPT ![r].swapCalls = @ + 1,
                                ![r].swapResult = IF success THEN "success"
                                                             ELSE "failure"]
       /\ mintCount' = CountAfterSwap(mintCount, success)
  /\ pc' = [pc EXCEPT ![r] = "mintPush"]
  /\ UNCHANGED <<now, payToSet, paymentNonce, templateConfig, mintRecords,
                 req, resp>>
  /\ UNCHANGED outsideVerify

\* 7. saveMintRecord, redisClient.lPush
MintPush(r) ==
  /\ pc[r] = "mintPush"
  /\ mintRecords' = [mintRecords EXCEPT
                       ![req[r].from] = lPush(@, MintRecord(r))]
  /\ hist' = [hist EXCEPT ![r].mintAppends = @ + 1]
  /\ pc' = [pc EXCEPT ![r] = "mintTrim"]
  /\ UNCHANGED <<now, payToSet, paymentNonce, templateConfig, mintCount,
                 req, loc, resp>>
  /\ UNCHANGED outsideVerify

\* saveMintRecord, redisClient.lTrim, then 8. the success response
MintTrim(r) ==
  /\ pc[r] = "mintTrim"
  /\ mintRecords' = [mintRecords EXCEPT ![req[r].from] = lTrim(@)]
  /\ pc' = [pc EXCEPT ![r] = "done"]
  /\ resp' = [resp EXCEPT ![r] =
                RespSuccess(r, [present |-> TRUE,
                                mint_count |-> MintCountPerRecord,
                                tx_hash |-> IF loc[r].swapSuccess THEN r ELSE 0])]
  /\ loc' = [loc EXCEPT ![r].swapSuccess = FALSE]
  /\ UNCHANGED <<now, payToSet, paymentNonce, templateConfig, mintCount,
                 req, hist>>
  /\ UNCHANGED outsideVerify

\* time passes, for as long as a request is still to be answered
Tick ==
  /\ now + TickSeconds <= MaxTicks * TickSeconds
  /\ \E r \in Reqs : pc[r] # "done"
  /\ now' = now + TickSeconds
  /\ UNCHANGED <<payToSet, ledger, pc, req, loc, resp, hist>>
  /\ UNCHANGED outsideVerify

Next ==
  \/ \E r \in Reqs : ParseFails(r)
  \/ \E r \in Reqs : CheckNonce(r)
  \/ \E r \in Reqs : CfgExists(r)
  \/ \E r \in Reqs : CfgSet(r)
  \/ \E r \in Reqs : CfgGet(r)
  \/ \E r \in Reqs : GetCount(r)
  \/ \E r \in Reqs : SettleThrows(r)
  \/ \E r \in Reqs : Settle(r)
  \/ \E r \in Reqs : SavePayment(r)
  \/ \E r \in Reqs : Incr(r)
  \/ \E r \in Reqs : ExecuteSwap(r)
  \/ \E r \in Reqs : MintPush(r)
  \/ \E r \in Reqs : MintTrim(r)
  \/ Tick

Spec == Init /\ [][Next]_vars

(***************************************************************************)
(* Specification SpecQuota: POST /verify next to the traffic of other      *)
(* clients.  OtherClientMints is one whole successful token-mint request   *)
(* of a client outside Reqs, with a nonce outside Nonces and an address    *)
(* outside Addrs, processed from its quota check to its answer without     *)
(* another request's step in between: of the keys of the model it touches  *)
(* the template configuration and the counter.                             *)
(***************************************************************************)
OtherClientMints ==
  /\ \E r \in Reqs : InFlight(r)
  /\ LET config == IF templateConfig.present THEN templateConfig
                                             ELSE InitialTemplateConfig
     IN  /\ ~MintLimitReached(mintCount, ParseMaxCount(config))
         /\ templateConfig' = config
         /\ mintCount' = incrementMintCount(mintCount)
  /\ UNCHANGED <<now, payToSet, paymentNonce, mintRecords, pc, req, loc,
                 resp, hist>>
  /\ UNCHANGED outsideVerify

NextQuota ==
  \/ Next
  \/ OtherClientMints

SpecQuota == Init /\ [][NextQuota]_vars

(***************************************************************************)
(* Specification SpecRecords: the mint-record list of one address.         *)
(* saveMintRecord is called by NumSavers concurrent callers, each call an  *)
(* lPush and then an lTrim, and GET /token-mint/records/:address reads     *)
(* the list at any moment.  A record is the number of its append.          *)
(***************************************************************************)
Min(a, b) == IF a < b THEN a ELSE b

\* parseInt(req.query.limit): NaN when there is no number to read
NaN == [nan |-> TRUE, value |-> 0]

Num(v) == [nan |-> FALSE, value |-> v]

LimitQueries ==
  {NaN} \cup {Num(v) : v \in {-2, -1, 0, 1, RecordsDefaultLimit,
                              RecordsMaxLimit, RecordsMaxLimit + 1}}

\* Math.min(parseInt(limit) || 10, 50): NaN and 0 are falsy
recordsLimit(parsed) ==
  Min(IF parsed.nan \/ parsed.value = 0 THEN RecordsDefaultLimit
                                         ELSE parsed.value,
      RecordsMaxLimit)

\* redisClient.lRange(key, start, stop) for start >= 0: a negative stop
\* counts from the tail, a stop past the tail is the tail
lRange(list, start, stop) ==
  LET last == IF stop < 0 THEN Len(list) + stop
                          ELSE Min(stop, Len(list) - 1)
  IN  IF last < start THEN << >> ELSE SubSeq(list, start + 1, last + 1)

\* a list of len records, newest first
StoredList(len) == [i \in 1..len |-> len - i + 1]

InitRecords ==
  /\ \E len \in (MaxMintRecords - StartSlack)..MaxMintRecords :
       /\ recordsList = StoredList(len)
       /\ appended = len
  /\ saverPc = [c \in Savers |-> "idle"]
  /\ recordsCount = 0
  /\ VerifyIdle
  /\ RetryIdle
  /\ BreakerIdle
  /\ CacheIdle
  /\ SwapIdle
  /\ MoreIdle

\* saveMintRecord, redisClient.lPush
SaveMintRecordPush(c) ==
  /\ saverPc[c] = "idle"
  /\ appended < MaxMintRecords + MaxAppends
  /\ recordsList' = lPush(recordsList, appended + 1)
  /\ appended' = appended + 1
  /\ saverPc' = [saverPc EXCEPT ![c] = "lTrim"]
  /\ UNCHANGED recordsCount
  /\ UNCHANGED outsideRecords

\* saveMintRecord, redisClient.lTrim(key, 0, 49)
SaveMintRecordTrim(c) ==
  /\ saverPc[c] = "lTrim"
  /\ recordsList' = lTrim(recordsList)
  /\ saverPc' = [saverPc EXCEPT ![c] = "idle"]
  /\ UNCHANGED <<appended, recordsCount>>
  /\ UNCHANGED outsideRecords

\* GET /token-mint/records/:address
GetRecords ==
  /\ \E query \in LimitQueries :
       recordsCount' =
         Len(lRange(recordsList, 0, recordsLimit(query) - 1))
  /\ UNCHANGED <<recordsList, saverPc, appended>>
  /\ UNCHANGED outsideRecords

NextRecords ==
  \/ \E c \in Savers : SaveMintRecordPush(c)
  \/ \E c \in Savers : SaveMintRecordTrim(c)
  \/ GetRecords

SpecRecords == InitRecords /\ [][NextRecords]_vars

(***************************************************************************)
(* Specification SpecRetry: one call of SmartRetryManager.executeWithRetry *)
(* (lib/dex/retry.ts).  The operation is external: each invocation either  *)
(* returns a value or throws an error, a DexSwapError with a code or a     *)
(* plain Error whose message holds some of the words the manager looks     *)
(* for.  What the operation does at each invocation is fixed by rtScript   *)
(* when the call starts; a value and an error carry the number of the      *)
(* invocation that produced them.  One step per await: the operation, and  *)
(* the sleep.                                                              *)
(***************************************************************************)
DexSwapError(code, at) ==
  [kind |-> "dex", code |-> code, words |-> {}, at |-> at]

PlainError(words, at) ==
  [kind |-> "plain", code |-> "", words |-> words, at |-> at]

\* the operation returns
Returns == [kind |-> "ok", code |-> "", words |-> {}, at |-> 0]

\* what one invocation of the operation can do
Outcomes ==
  {Returns}
  \cup {DexSwapError(code, 0) : code \in {"NETWORK_ERROR", "SLIPPAGE_EXCEEDED"}}
  \cup {PlainError(words, 0) : words \in {{}, {"timeout"}, {"503", "gas"}}}

\* the error object thrown by invocation number at
Thrown(outcome, at) == [outcome EXCEPT !.at = at]

\* the retry configurations of the model
RetryConfigs ==
  [maxAttempts : 0..MaxAttemptsBound,
   backoffMs : {DefaultRetryConfig.backoffMs, 20 * DefaultRetryConfig.backoffMs},
   backoffMultiplier : {DefaultRetryConfig.backoffMultiplier},
   retryableErrors : {DefaultRetryableErrors, {"NETWORK_ERROR"}},
   strategy : RetryStrategies]

\* mutant: every error is retried
isRetryableErrorAlways(error, retryableErrors) == TRUE

\* isRetryableError: the code of a DexSwapError, else the words of the message
isRetryableError(error, retryableErrors) ==
  IF error.kind = "dex" THEN error.code \in retryableErrors
  ELSE IF error.words \cap {"network", "timeout", "connection", "fetch"} # {}
    THEN "NETWORK_ERROR" \in retryableErrors
  ELSE IF error.words \cap {"api", "500", "502", "503", "504"} # {}
    THEN "API_ERROR" \in retryableErrors
  ELSE IF error.words \cap {"gas", "estimate"} # {}
    THEN "GAS_ESTIMATION_FAILED" \in retryableErrors
  ELSE FALSE

RECURSIVE Pow(_, _)
\* Math.pow for a natural exponent
Pow(base, exponent) ==
  IF exponent = 0 THEN 1 ELSE base * Pow(base, exponent - 1)

\* Math.random() * 0.3 * exponentialDelay: from 0 to just below 30%
Jitters(exponentialDelay) ==
  {0, (3 * exponentialDelay) \div 20, ((3 * exponentialDelay) \div 10) - 1}

\* the divisor of a backoffMultiplier that is a fraction, else 1
Divisor(config) ==
  IF "backoffDivisor" \in DOMAIN config THEN config.backoffDivisor ELSE 1

\* calculateDelay before the cap, for each value Math.random can give, in
\* whole milliseconds
UncappedDelays(attempt, config) ==
  LET exponentialDelay ==
        (config.backoffMs * Pow(config.backoffMultiplier, attempt - 1))
          \div Pow(Divisor(config), attempt - 1)
  IN  CASE config.strategy = "fixed_delay" -> {config.backoffMs}
        [] config.strategy = "linear_backoff" -> {config.backoffMs * attempt}
        [] config.strategy = "exponential_backoff" -> {exponentialDelay}
        [] config.strategy = "jittered_backoff" ->
             {exponentialDelay + j : j \in Jitters(exponentialDelay)}

\* mutant: the delay is not capped
calculateDelayUncapped(attempt, config) == UncappedDelays(attempt, config)

\* calculateDelay: Math.min(delay, 30000)
calculateDelay(attempt, config) ==
  {Min(delay, MaxDelayMs) : delay \in UncappedDelays(attempt, config)}

\* mutant: the loop stops one attempt early
LoopContinuesOneShort(attempt, maxAttempts) == attempt < maxAttempts

\* the test of the for loop of executeAttempts
LoopContinues(attempt, maxAttempts) == attempt <= maxAttempts

\* mutant: the first error is kept
CaughtErrorFirst(lastError, error) ==
  IF lastError = NoError THEN error ELSE lastError

\* lastError = error as Error
CaughtError(lastError, error) == error

\* executeWithRetry's answer when executeAttempts throws
RetryFailure(error, attempts) ==
  [success |-> FALSE, result |-> 0, error |-> error, attempts |-> attempts]

\* executeWithRetry's answer when executeAttempts returns
RetrySuccess(result, attempts) ==
  [success |-> TRUE, result |-> result, error |-> NoError,
   attempts |-> attempts]

\* the head of the for loop, reached with the next attempt number: the
\* operation is invoked, or the loop is left and lastError thrown
LoopHead(attempt, lastError) ==
  IF LoopContinues(attempt, rtConfig.maxAttempts)
    THEN /\ rtAttempt' = attempt
         /\ rtInvocations' = rtInvocations + 1
         /\ rtPc' = "operation"
         /\ UNCHANGED rtResult
    ELSE /\ rtResult' = RetryFailure(lastError, rtAttempt)
         /\ rtPc' = "done"
         /\ UNCHANGED <<rtAttempt, rtInvocations>>

InitRetry ==
  /\ rtConfig \in RetryConfigs
  /\ rtScript \in [1..MaxAttemptsBound -> Outcomes]
  /\ rtInvocations = 0
  /\ rtPc = "idle"
  /\ rtAttempt = 0
  /\ rtLastError = NoError
  /\ rtDelays = << >>
  /\ rtResult = NoResult
  /\ rtThrown = << >>
  /\ VerifyIdle
  /\ RecordsIdle
  /\ BreakerIdle
  /\ CacheIdle
  /\ SwapIdle
  /\ MoreIdle

\* executeWithRetry is called: context.attempt = 0, then the first attempt
ExecuteWithRetry ==
  /\ rtPc = "idle"
  /\ LoopHead(1, NoError)
  /\ UNCHANGED <<rtConfig, rtScript, rtLastError, rtDelays, rtThrown>>
  /\ UNCHANGED outsideRetry

\* await operation() returns
OperationReturns ==
  /\ rtPc = "operation"
  /\ rtScript[rtInvocations] = Returns
  /\ rtResult' = RetrySuccess(rtInvocations, rtAttempt)
  /\ rtPc' = "done"
  /\ UNCHANGED <<rtConfig, rtScript, rtInvocations, rtAttempt, rtLastError,
                 rtDelays, rtThrown>>
  /\ UNCHANGED outsideRetry

\* await operation() throws
OperationThrows ==
  /\ rtPc = "operation"
  /\ rtScript[rtInvocations] # Returns
  /\ LET error == Thrown(rtScript[rtInvocations], rtInvocations)
         lastError == CaughtError(rtLastError, error)
     IN  /\ rtThrown' = Append(rtThrown, error)
         /\ rtLastError' = lastError
         /\ IF ~isRetryableError(lastError, rtConfig.retryableErrors)
              THEN /\ rtResult' = RetryFailure(lastError, rtAttempt)
                   /\ rtPc' = "done"
                   /\ UNCHANGED <<rtAttempt, rtInvocations, rtDelays>>
              ELSE IF rtAttempt < rtConfig.maxAttempts
                THEN /\ \E delay \in calculateDelay(rtAttempt, rtConfig) :
                          rtDelays' = Append(rtDelays, delay)
                     /\ rtPc' = "sleep"
                     /\ UNCHANGED <<rtAttempt, rtInvocations, rtResult>>
                ELSE /\ LoopHead(rtAttempt + 1, lastError)
                     /\ UNCHANGED rtDelays
  /\ UNCHANGED <<rtConfig, rtScript>>
  /\ UNCHANGED outsideRetry

\* await this.sleep(delay) is over: the next attempt
SleepEnds ==
  /\ rtPc = "sleep"
  /\ LoopHead(rtAttempt + 1, rtLastError)
  /\ UNCHANGED <<rtConfig, rtScript, rtLastError, rtDelays, rtThrown>>
  /\ UNCHANGED outsideRetry

NextRetry ==
  \/ ExecuteWithRetry
  \/ OperationReturns
  \/ OperationThrows
  \/ SleepEnds

SpecRetry == InitRetry /\ [][NextRetry]_vars

\* the operation's promise settles and the sleep's timer fires
SpecRetryLive == SpecRetry /\ WF_vars(NextRetry)

(***************************************************************************)
(* Specification SpecSmartRetry: one call of DexRetryManager.smartRetry.    *)
(* The operation is invoked once; when it throws, the error selects one of *)
(* the three managers and the call goes on as that manager's               *)
(* executeWithRetry, whose steps are those of SpecRetry.  rtConfig is the  *)
(* configuration of the selected manager, rtInvocations counts every       *)
(* invocation of the operation, the first one included.                    *)
(***************************************************************************)
\* what one invocation of the operation can do under smartRetry
SmartOutcomes ==
  {Returns, PlainError({"timeout"}, 0)}
  \cup {DexSwapError(code, 0) :
          code \in {"NETWORK_ERROR", "API_ERROR", "GAS_ESTIMATION_FAILED",
                    "SLIPPAGE_EXCEEDED"}}

\* getRetryManagerForError
getRetryManagerForError(error) ==
  IF error.kind = "dex"
    THEN CASE error.code = "NETWORK_ERROR" -> NetworkRetryConfig
           [] error.code = "API_ERROR" -> ApiRetryConfig
           [] error.code = "GAS_ESTIMATION_FAILED" -> TransactionRetryConfig
           [] OTHER -> ApiRetryConfig
    ELSE NetworkRetryConfig

InitSmartRetry ==
  /\ rtConfig = NoManager
  /\ rtScript \in [1..MaxSmartInvocations -> SmartOutcomes]
  /\ rtInvocations = 0
  /\ rtPc = "idle"
  /\ rtAttempt = 0
  /\ rtLastError = NoError
  /\ rtDelays = << >>
  /\ rtResult = NoResult
  /\ rtThrown = << >>
  /\ VerifyIdle
  /\ RecordsIdle
  /\ BreakerIdle
  /\ CacheIdle
  /\ SwapIdle
  /\ MoreIdle

\* smartRetry is called: the operation is invoked
SmartRetry ==
  /\ rtPc = "idle"
  /\ rtPc' = "probe"
  /\ rtInvocations' = rtInvocations + 1
  /\ UNCHANGED <<rtConfig, rtScript, rtAttempt, rtLastError, rtDelays,
                 rtResult, rtThrown>>
  /\ UNCHANGED outsideRetry

\* the first invocation returns: smartRetry answers with attempts 1
ProbeReturns ==
  /\ rtPc = "probe"
  /\ rtScript[rtInvocations] = Returns
  /\ rtResult' = RetrySuccess(rtInvocations, 1)
  /\ rtPc' = "done"
  /\ UNCHANGED <<rtConfig, rtScript, rtInvocations, rtAttempt, rtLastError,
                 rtDelays, rtThrown>>
  /\ UNCHANGED outsideRetry

\* the first invocation throws: the error selects the manager, whose
\* executeWithRetry starts with attempt 1
ProbeThrows ==
  /\ rtPc = "probe"
  /\ rtScript[rtInvocations] # Returns
  /\ LET error == Thrown(rtScript[rtInvocations], rtInvocations)
         manager == getRetryManagerForError(error)
     IN  /\ rtThrown' = Append(rtThrown, error)
         /\ rtConfig' = manager
         /\ IF LoopContinues(1, manager.maxAttempts)
              THEN /\ rtAttempt' = 1
                   /\ rtInvocations' = rtInvocations + 1
                   /\ rtPc' = "operation"
                   /\ UNCHANGED rtResult
              ELSE /\ rtResult' = RetryFailure(NoError, rtAttempt)
                   /\ rtPc' = "done"
                   /\ UNCHANGED <<rtAttempt, rtInvocations>>
  /\ UNCHANGED <<rtScript, rtLastError, rtDelays>>
  /\ UNCHANGED outsideRetry

NextSmartRetry ==
  \/ SmartRetry
  \/ ProbeReturns
  \/ ProbeThrows
  \/ OperationReturns
  \/ OperationThrows
  \/ SleepEnds

SpecSmartRetry == InitSmartRetry /\ [][NextSmartRetry]_vars

(***************************************************************************)
(* Specification SpecActive: NumActiveCalls concurrent executeWithRetry     *)
(* calls on one SmartRetryManager with the default configuration, each     *)
(* given an operationId or the empty string, and cancelRetry calls.  The   *)
(* calls share activeRetries; one step runs a call from one await to the   *)
(* next.                                                                   *)
(***************************************************************************)
\* what the operation of a call throws
ActiveErrors ==
  {DexSwapError("NETWORK_ERROR", 0), DexSwapError("SLIPPAGE_EXCEEDED", 0)}

\* a call is between its start and its return
Running(c) == arCalls[c].pc \in {"operation", "sleep"}

\* executeWithRetry returns: the finally block deletes the entry of its id
ReturnOf(c) ==
  /\ arCalls' = [arCalls EXCEPT ![c].pc = "done"]
  /\ arActive' = IF arCalls[c].id # ""
                   THEN [arActive EXCEPT ![arCalls[c].id] = 0]
                   ELSE arActive

InitActive ==
  /\ ActiveIdle
  /\ VerifyIdle
  /\ RecordsIdle
  /\ RetryIdle
  /\ BreakerIdle
  /\ CacheIdle
  /\ SwapIdle
  /\ EventsIdle
  /\ TimeIdle
  /\ OkxIdle

\* executeWithRetry(operation, operationId): the context is stored under
\* the id when the id is truthy, then the first attempt is made
StartCall(c, operationId) ==
  /\ arCalls[c].pc = "idle"
  /\ arCalls' = [arCalls EXCEPT ![c] =
                   [pc |-> "operation", id |-> operationId, attempt |-> 1]]
  /\ arActive' = IF operationId # ""
                   THEN [arActive EXCEPT ![operationId] = c]
                   ELSE arActive
  /\ UNCHANGED outsideActive

\* await operation() returns in a call
CallOperationReturns(c) ==
  /\ arCalls[c].pc = "operation"
  /\ ReturnOf(c)
  /\ UNCHANGED outsideActive

\* await operation() throws in a call
CallOperationThrows(c, error) ==
  /\ arCalls[c].pc = "operation"
  /\ IF /\ isRetryableError(error, DefaultRetryConfig.retryableErrors)
        /\ arCalls[c].attempt < DefaultRetryConfig.maxAttempts
       THEN /\ arCalls' = [arCalls EXCEPT ![c].pc = "sleep"]
            /\ UNCHANGED arActive
       ELSE ReturnOf(c)
  /\ UNCHANGED outsideActive

\* await this.sleep(delay) is over in a call: the next attempt
CallSleepEnds(c) ==
  /\ arCalls[c].pc = "sleep"
  /\ arCalls' = [arCalls EXCEPT ![c].pc = "operation",
                                ![c].attempt = arCalls[c].attempt + 1]
  /\ UNCHANGED arActive
  /\ UNCHANGED outsideActive

\* cancelRetry(operationId): activeRetries.delete
CancelRetry(operationId) ==
  /\ arActive[operationId] # 0
  /\ arActive' = [arActive EXCEPT ![operationId] = 0]
  /\ UNCHANGED arCalls
  /\ UNCHANGED outsideActive

NextActive ==
  \/ \E c \in ActiveCalls, operationId \in OperationIds :
       StartCall(c, operationId)
  \/ \E c \in ActiveCalls : CallOperationReturns(c)
  \/ \E c \in ActiveCalls, error \in ActiveErrors :
       CallOperationThrows(c, error)
  \/ \E c \in ActiveCalls : CallSleepEnds(c)
  \/ \E operationId \in OperationIds : CancelRetry(operationId)

SpecActive == InitActive /\ [][NextActive]_vars

(***************************************************************************)
(* Specification SpecTime: the module lib/timeSync.ts used by              *)
(* NumSyncCallers concurrent callers of ensureTimeSync.  A call runs       *)
(* synchronously up to `await syncPromise`, fetchServerTime up to its      *)
(* `await axios.get`; the handlers of .catch and .finally and the          *)
(* resumption of each awaiting caller are steps of their own, so that      *)
(* other calls may come between them.                                      *)
(***************************************************************************)
\* Math.abs
Abs(n) == IF n < 0 THEN 0 - n ELSE n

\* shouldSync
shouldSync ==
  IF tsLastSync = 0 THEN TRUE
  ELSE LET stale == tsNow - tsLastSync > MaxStaleMs
           driftTooLarge == Abs(tsOffset) > MaxOffsetBeforeForce
       IN  stale \/ driftTooLarge

\* mutant: every failure of fetchServerTime is thrown again
SyncRejectsAlways(failed, lastSync) == failed

\* the handler of .catch: the error is thrown again when lastSync === 0
SyncRejects(failed, lastSync) == failed /\ lastSync = 0

\* fetchServerTime() called: the first endpoint is asked
NewSync ==
  [pc |-> "fetching", endpoint |-> 1, failed |-> FALSE, rejected |-> FALSE,
   syncedBefore |-> tsLastSync # 0, offsetBefore |-> tsOffset,
   offsetAfter |-> tsOffset]

InitTime ==
  /\ TimeIdle
  /\ VerifyIdle
  /\ RecordsIdle
  /\ RetryIdle
  /\ BreakerIdle
  /\ CacheIdle
  /\ SwapIdle
  /\ EventsIdle
  /\ ActiveIdle
  /\ OkxIdle

\* ensureTimeSync() is called: it returns at once, or starts a fetch when
\* syncPromise is null, and awaits syncPromise
EnsureTimeSync(c) ==
  /\ tsCallers[c].pc = "idle"
  /\ IF ~shouldSync
       THEN /\ tsCallers' = [tsCallers EXCEPT ![c].last = "returned",
                                              ![c].awaits = 0]
            /\ UNCHANGED <<tsSyncPromise, tsPromises>>
       ELSE IF tsSyncPromise = 0
         THEN /\ Len(tsPromises) < MaxSyncs
              /\ tsPromises' = Append(tsPromises, NewSync)
              /\ tsSyncPromise' = Len(tsPromises) + 1
              /\ tsCallers' = [tsCallers EXCEPT
                                 ![c] = [pc |-> "awaiting",
                                         awaits |-> Len(tsPromises) + 1,
                                         last |-> "none"]]
         ELSE /\ tsCallers' = [tsCallers EXCEPT
                                 ![c] = [pc |-> "awaiting",
                                         awaits |-> tsSyncPromise,
                                         last |-> "none"]]
              /\ UNCHANGED <<tsSyncPromise, tsPromises>>
  /\ UNCHANGED <<tsNow, tsOffset, tsLastSync>>
  /\ UNCHANGED outsideTime

\* axios.get answers with code '0' and a finite ts: offsetMs and lastSync
\* are set and fetchServerTime returns
EndpointAnswers(skew) ==
  /\ tsSyncPromise # 0
  /\ tsPromises[tsSyncPromise].pc = "fetching"
  /\ tsOffset' = skew
  /\ tsLastSync' = tsNow
  /\ tsPromises' = [tsPromises EXCEPT ![tsSyncPromise].pc = "fetched",
                                      ![tsSyncPromise].offsetAfter = skew]
  /\ UNCHANGED <<tsNow, tsSyncPromise, tsCallers>>
  /\ UNCHANGED outsideTime

\* axios.get fails, or answers with another code or without a ts: the
\* next endpoint is asked, or lastError is thrown after the last one
EndpointFails ==
  /\ tsSyncPromise # 0
  /\ tsPromises[tsSyncPromise].pc = "fetching"
  /\ tsPromises' =
       IF tsPromises[tsSyncPromise].endpoint < NumEndpoints
         THEN [tsPromises EXCEPT ![tsSyncPromise].endpoint =
                 tsPromises[tsSyncPromise].endpoint + 1]
         ELSE [tsPromises EXCEPT ![tsSyncPromise].pc = "fetched",
                                 ![tsSyncPromise].failed = TRUE]
  /\ UNCHANGED <<tsNow, tsOffset, tsLastSync, tsSyncPromise, tsCallers>>
  /\ UNCHANGED outsideTime

\* the handler of .catch runs, or is passed over after a success
CatchHandler ==
  /\ tsSyncPromise # 0
  /\ tsPromises[tsSyncPromise].pc = "fetched"
  /\ tsPromises' =
       [tsPromises EXCEPT
          ![tsSyncPromise].pc = "caught",
          ![tsSyncPromise].rejected =
             SyncRejects(tsPromises[tsSyncPromise].failed, tsLastSync)]
  /\ UNCHANGED <<tsNow, tsOffset, tsLastSync, tsSyncPromise, tsCallers>>
  /\ UNCHANGED outsideTime

\* the handler of .finally: syncPromise = null, and the promise settles
FinallyHandler ==
  /\ tsSyncPromise # 0
  /\ tsPromises[tsSyncPromise].pc = "caught"
  /\ tsPromises' = [tsPromises EXCEPT ![tsSyncPromise].pc = "settled"]
  /\ tsSyncPromise' = 0
  /\ UNCHANGED <<tsNow, tsOffset, tsLastSync, tsCallers>>
  /\ UNCHANGED outsideTime

\* await syncPromise is over in a caller: ensureTimeSync returns or throws
SyncCallerResumes(c) ==
  /\ tsCallers[c].pc = "awaiting"
  /\ tsPromises[tsCallers[c].awaits].pc = "settled"
  /\ tsCallers' =
       [tsCallers EXCEPT
          ![c].pc = "idle",
          ![c].last = IF tsPromises[tsCallers[c].awaits].rejected
                        THEN "threw" ELSE "returned"]
  /\ UNCHANGED <<tsNow, tsOffset, tsLastSync, tsSyncPromise, tsPromises>>
  /\ UNCHANGED outsideTime

\* time passes
SyncTick ==
  /\ tsNow < StartTimeMs + MaxSyncTicks * SyncTickMs
  /\ tsNow' = tsNow + SyncTickMs
  /\ UNCHANGED <<tsOffset, tsLastSync, tsSyncPromise, tsPromises, tsCallers>>
  /\ UNCHANGED outsideTime

NextTime ==
  \/ \E c \in SyncCallers : EnsureTimeSync(c)
  \/ \E skew \in Skews : EndpointAnswers(skew)
  \/ EndpointFails
  \/ CatchHandler
  \/ FinallyHandler
  \/ \E c \in SyncCallers : SyncCallerResumes(c)
  \/ SyncTick

SpecTime == InitTime /\ [][NextTime]_vars

(***************************************************************************)
(* Specification SpecOkx: one call of OkxClient.request, as made by        *)
(* settle.  One step runs the call from one await to the next:             *)
(* buildHeaders, the transmission by axios, the sleep of the backoff.      *)
(* SpecOkxLive adds that each of the three settles: axios gives up after   *)
(* its timeout of 10 s, the timer of sleep fires, the time request of      *)
(* buildHeaders has a timeout of its own.                                  *)
(***************************************************************************)
\* axios resolves for a 2xx status and rejects otherwise
Resolves(answer) == answer.status >= 200 /\ answer.status < 300

\* isRateLimit of the catch block: status and code of error.response
isRateLimit(answer) ==
  /\ ~Resolves(answer)
  /\ answer.status = 429 \/ answer.code = "50011"

\* mutant: one more retransmission is allowed
RetryAllowedOneMore(attempt) == attempt <= OkxMaxRetries

\* attempt < maxRetries
RetryAllowed(attempt) == attempt < OkxMaxRetries

\* 500 * Math.pow(2, attempt)
OkxBackoff(attempt) == OkxBackoffBaseMs * Pow(2, attempt)

\* request returns or throws
OkxEnds(kind) ==
  /\ okPc' = "done"
  /\ okResult' = [kind |-> kind, after |-> Len(okAnswers')]

\* the head of the for loop: buildHeaders is awaited, or the loop is left
OkxLoopHead(attempt) ==
  /\ okAttempt' = attempt
  /\ IF attempt <= OkxMaxRetries
       THEN okPc' = "headers" /\ UNCHANGED okResult
       ELSE OkxEnds("request failed")

InitOkx ==
  /\ OkxIdle
  /\ VerifyIdle
  /\ RecordsIdle
  /\ RetryIdle
  /\ BreakerIdle
  /\ CacheIdle
  /\ SwapIdle
  /\ EventsIdle
  /\ ActiveIdle
  /\ TimeIdle

\* request(method, path, body) is called
OkxRequest ==
  /\ okPc = "idle"
  /\ UNCHANGED <<okAnswers, okSleeps>>
  /\ OkxLoopHead(0)
  /\ UNCHANGED outsideOkx

\* await this.buildHeaders returns: the request is transmitted
HeadersBuilt ==
  /\ okPc = "headers"
  /\ okPc' = "transmit"
  /\ UNCHANGED <<okAttempt, okAnswers, okSleeps, okResult>>
  /\ UNCHANGED outsideOkx

\* await this.buildHeaders throws, the first time synchronisation having
\* failed: the error has no response and is thrown again
HeadersThrow ==
  /\ okPc = "headers"
  /\ okAttempt = 0
  /\ UNCHANGED <<okAttempt, okAnswers, okSleeps>>
  /\ OkxEnds("time sync error")
  /\ UNCHANGED outsideOkx

\* await this.client.request settles with an answer
OkxAnswer(answer) ==
  /\ okPc = "transmit"
  /\ okAnswers' = Append(okAnswers, answer)
  /\ IF Resolves(answer)
       THEN /\ OkxEnds(IF answer.code = "0" THEN "data" ELSE "api error")
            /\ UNCHANGED <<okAttempt, okSleeps>>
       ELSE IF isRateLimit(answer) /\ RetryAllowed(okAttempt)
         THEN /\ okSleeps' = Append(okSleeps, OkxBackoff(okAttempt))
              /\ okPc' = "sleep"
              /\ UNCHANGED <<okAttempt, okResult>>
         ELSE /\ OkxEnds(IF isRateLimit(answer) THEN "rate limit error"
                                                ELSE "http error")
              /\ UNCHANGED <<okAttempt, okSleeps>>
  /\ UNCHANGED outsideOkx

\* await sleep(backoff) is over: continue
OkxSleepOver ==
  /\ okPc = "sleep"
  /\ UNCHANGED <<okAnswers, okSleeps>>
  /\ OkxLoopHead(okAttempt + 1)
  /\ UNCHANGED outsideOkx

NextOkx ==
  \/ OkxRequest
  \/ HeadersBuilt
  \/ HeadersThrow
  \/ \E answer \in OkxAnswers : OkxAnswer(answer)
  \/ OkxSleepOver

SpecOkx == InitOkx /\ [][NextOkx]_vars

\* buildHeaders, the transmission and the sleep all settle
SpecOkxLive == SpecOkx /\ WF_vars(NextOkx)

(***************************************************************************)
(* Specification SpecBreaker: one CircuitBreaker (lib/dex/retry.ts) used   *)
(* by NumCallers concurrent callers.  execute() runs synchronously up to   *)
(* the call of the operation, so the gate and the invocation are one step  *)
(* and the completion of the operation, with onSuccess or onFailure, is    *)
(* another.  The clock is Date.now() in milliseconds.                      *)
(***************************************************************************)
\* mutant: the breaker opens one failure late
ThresholdReachedLate(count, threshold) == count > threshold

\* this.failureCount >= this.failureThreshold
ThresholdReached(count, threshold) == count >= threshold

\* Date.now() - this.lastFailureTime < this.recoveryTimeMs
Recovering ==
  breakerNow - breaker.lastFailureTime < breakerParams.recoveryTimeMs

\* the breaker as constructed, and as reset() leaves it
ClosedBreaker ==
  [state |-> "CLOSED", failureCount |-> 0, successCount |-> 0,
   lastFailureTime |-> 0]

NoCall == [pc |-> "idle", outcome |-> "none", trial |-> FALSE]

\* mutant: closing the breaker leaves successCount as it is
onSuccessKeepCount(b) ==
  LET cleared == [b EXCEPT !.failureCount = 0] IN
    IF b.state = "HALF_OPEN"
      THEN IF b.successCount + 1 >= breakerParams.successThreshold
             THEN [cleared EXCEPT !.state = "CLOSED",
                                  !.successCount = b.successCount + 1]
             ELSE [cleared EXCEPT !.successCount = b.successCount + 1]
      ELSE cleared

\* onSuccess
onSuccess(b) ==
  LET cleared == [b EXCEPT !.failureCount = 0] IN
    IF b.state = "HALF_OPEN"
      THEN IF b.successCount + 1 >= breakerParams.successThreshold
             THEN [cleared EXCEPT !.state = "CLOSED", !.successCount = 0]
             ELSE [cleared EXCEPT !.successCount = b.successCount + 1]
      ELSE cleared

\* onFailure
onFailure(b) ==
  LET counted == [b EXCEPT !.failureCount = b.failureCount + 1,
                           !.lastFailureTime = breakerNow,
                           !.successCount = 0]
  IN  IF ThresholdReached(counted.failureCount,
                          breakerParams.failureThreshold)
        THEN [counted EXCEPT !.state = "OPEN"]
        ELSE counted

InitBreaker ==
  /\ breaker = ClosedBreaker
  /\ breakerParams \in [failureThreshold : 1..MaxThreshold,
                        recoveryTimeMs : {DefaultRecoveryTimeMs},
                        successThreshold : 1..MaxThreshold]
  /\ breakerNow = BreakerStartMs
  /\ breakerCall = [c \in Callers |-> NoCall]
  /\ breakerStreak = 0
  /\ breakerTrials = 0
  /\ VerifyIdle
  /\ RecordsIdle
  /\ RetryIdle
  /\ CacheIdle
  /\ SwapIdle
  /\ MoreIdle

\* execute(operation) up to the call of the operation
Execute(c) ==
  /\ breakerCall[c].pc = "idle"
  /\ IF breaker.state = "OPEN" /\ Recovering
       THEN /\ breakerCall' = [breakerCall EXCEPT
                                 ![c] = [NoCall EXCEPT !.outcome = "circuitOpen"]]
            /\ UNCHANGED <<breaker, breakerTrials>>
       ELSE /\ breaker' = IF breaker.state = "OPEN"
                            THEN [breaker EXCEPT !.state = "HALF_OPEN"]
                            ELSE breaker
            /\ breakerCall' = [breakerCall EXCEPT
                                 ![c] = [pc |-> "operation", outcome |-> "none",
                                         trial |-> breaker.state = "OPEN"]]
            /\ breakerTrials' = IF breaker.state = "OPEN"
                                  THEN 0 ELSE breakerTrials
  /\ UNCHANGED <<breakerParams, breakerNow, breakerStreak>>
  /\ UNCHANGED outsideBreaker

\* await operation() returns: onSuccess
BreakerOperationReturns(c) ==
  /\ breakerCall[c].pc = "operation"
  /\ breaker' = onSuccess(breaker)
  /\ breakerCall' = [breakerCall EXCEPT
                       ![c] = [NoCall EXCEPT !.outcome = "returned"]]
  /\ breakerStreak' = 0
  /\ breakerTrials' = IF breaker.state = "HALF_OPEN"
                        THEN breakerTrials + 1 ELSE breakerTrials
  /\ UNCHANGED <<breakerParams, breakerNow>>
  /\ UNCHANGED outsideBreaker

\* await operation() throws: onFailure, and the error is thrown on
BreakerOperationThrows(c) ==
  /\ breakerCall[c].pc = "operation"
  /\ breaker' = onFailure(breaker)
  /\ breakerCall' = [breakerCall EXCEPT
                       ![c] = [NoCall EXCEPT !.outcome = "thrown"]]
  /\ breakerStreak' = breakerStreak + 1
  /\ breakerTrials' = 0
  /\ UNCHANGED <<breakerParams, breakerNow>>
  /\ UNCHANGED outsideBreaker

\* reset()
BreakerReset ==
  /\ breaker # ClosedBreaker
  /\ breaker' = ClosedBreaker
  /\ breakerStreak' = 0
  /\ breakerTrials' = 0
  /\ UNCHANGED <<breakerParams, breakerNow, breakerCall>>
  /\ UNCHANGED outsideBreaker

\* time passes
BreakerTick ==
  /\ breakerNow + BreakerTickMs <= BreakerStartMs + MaxBreakerTicks * BreakerTickMs
  /\ breakerNow' = breakerNow + BreakerTickMs
  /\ UNCHANGED <<breaker, breakerParams, breakerCall, breakerStreak,
                 breakerTrials>>
  /\ UNCHANGED outsideBreaker

NextBreaker ==
  \/ \E c \in Callers : Execute(c)
  \/ \E c \in Callers : BreakerOperationReturns(c)
  \/ \E c \in Callers : BreakerOperationThrows(c)
  \/ BreakerReset
  \/ BreakerTick

SpecBreaker == InitBreaker /\ [][NextBreaker]_vars

(***************************************************************************)
(* Specification SpecCache: one SmartCacheManager (routes/x402.ts, cache   *)
(* manager part).  Its methods are synchronous, so each call is one step.  *)
(* cache is the Map in insertion order, which is the order forEach and     *)
(* keys() follow.  The hit/miss/eviction statistics and lastAccessed are   *)
(* left out: no method reads them to decide what to do.                    *)
(***************************************************************************)
\* the position of key in a sequence of entries, 0 when it is absent
EntryIndex(entries, key) ==
  IF \E i \in DOMAIN entries : entries[i].key = key
    THEN CHOOSE i \in DOMAIN entries : entries[i].key = key
    ELSE 0

\* Map.has
CacheHasKey(entries, key) == EntryIndex(entries, key) # 0

\* Map.delete
MapDelete(entries, key) == SelectSeq(entries, LAMBDA e : e.key # key)

\* Map.set: an existing key keeps its place, a new one goes last
MapSet(entries, entry) ==
  IF CacheHasKey(entries, entry.key)
    THEN [entries EXCEPT ![EntryIndex(entries, entry.key)] = entry]
    ELSE Append(entries, entry)

\* removeFromAccessOrder
removeFromAccessOrder(order, key) == SelectSeq(order, LAMBDA k : k # key)

\* mutant: the old position of the key is kept
updateAccessOrderKeepOld(order, key) == Append(order, key)

\* updateAccessOrder
updateAccessOrder(order, key) == Append(removeFromAccessOrder(order, key), key)

\* mutant: the age of the entry is taken from time zero
IsExpiredSinceZero(entry, time) == time > entry.ttl

\* now - entry.timestamp > entry.ttl
IsExpired(entry, time) == time - entry.timestamp > entry.ttl

\* the key of the first entry, in Map order, whose measure is the least;
\* measures[i] is the measure of entries[i]
FirstLeast(entries, measures) ==
  LET i == CHOOSE i \in DOMAIN entries :
             /\ \A j \in DOMAIN entries : measures[i] <= measures[j]
             /\ \A j \in 1..(i - 1) : measures[j] > measures[i]
  IN  entries[i].key

\* findLeastFrequentlyUsed
findLeastFrequentlyUsed(entries) ==
  FirstLeast(entries, [i \in DOMAIN entries |-> entries[i].accessCount])

\* findOldestEntry
findOldestEntry(entries) ==
  FirstLeast(entries, [i \in DOMAIN entries |-> entries[i].createdAt])

\* findSoonestToExpire
findSoonestToExpire(entries) ==
  FirstLeast(entries,
             [i \in DOMAIN entries |-> entries[i].timestamp + entries[i].ttl])

\* if (keyToEvict): undefined and the empty string are falsy
Truthy(key) == key # NoKey /\ key # ""

\* String.startsWith, on the keys and prefixes of the model
StartsWith(key, prefix) ==
  \/ prefix = ""
  \/ key = prefix
  \/ key = "ab" /\ prefix = "a"

\* evictEntry: the key to evict, NoKey when there is none
KeyToEvict(entries, order, strategy) ==
  CASE strategy = "lru" -> IF order = << >> THEN NoKey ELSE order[1]
    [] strategy = "lfu" ->
         IF entries = << >> THEN NoKey ELSE findLeastFrequentlyUsed(entries)
    [] strategy = "fifo" ->
         IF entries = << >> THEN NoKey ELSE findOldestEntry(entries)
    [] strategy = "ttl_only" ->
         IF entries = << >> THEN NoKey ELSE findSoonestToExpire(entries)

\* this.cache.size >= this.config.maxSize && !this.cache.has(key)
MustEvict(entries, key, maxSize) ==
  Len(entries) >= maxSize /\ ~CacheHasKey(entries, key)

\* values are interchangeable: a key that is not stored is set to the
\* first value, a stored key to any value
DataChoices(key) ==
  IF CacheHasKey(cache, key) THEN CacheValues ELSE {1}

CacheEntry(key, data, ttl, time) ==
  [key |-> key, data |-> data, timestamp |-> time, ttl |-> ttl,
   accessCount |-> 1, createdAt |-> time]

InitCache ==
  /\ cache = << >>
  /\ accessOrder = << >>
  /\ cacheConfig \in [maxSize : 1..MaxCacheSize, strategy : CacheStrategies]
  /\ cacheNow = 0
  /\ cacheRet = NoReturn
  /\ cacheLastSet = NoSet
  /\ cacheUseOrder = << >>
  /\ VerifyIdle
  /\ RecordsIdle
  /\ RetryIdle
  /\ BreakerIdle
  /\ SwapIdle
  /\ MoreIdle

\* the history of uses after a use of key
UsedLast(key) ==
  IF cacheConfig.strategy = "lru"
    THEN SelectSeq(cacheUseOrder, LAMBDA k : k # key) \o <<key>>
    ELSE cacheUseOrder

\* set(key, data, ttl)
CacheSet(key, data, ttl) ==
  LET evicts == MustEvict(cache, key, cacheConfig.maxSize)
      victim == IF evicts
                  THEN KeyToEvict(cache, accessOrder, cacheConfig.strategy)
                  ELSE NoKey
      kept == IF Truthy(victim) THEN MapDelete(cache, victim) ELSE cache
      order == IF ~Truthy(victim) THEN accessOrder
                                 ELSE removeFromAccessOrder(accessOrder, victim)
  IN  /\ data \in DataChoices(key)
      /\ cache' = MapSet(kept, CacheEntry(key, data, ttl, cacheNow))
      /\ accessOrder' = IF cacheConfig.strategy = "lru"
                          THEN updateAccessOrder(order, key)
                          ELSE order
      /\ cacheRet' = [hit |-> FALSE, data |-> 0]
      /\ cacheLastSet' = [key |-> key, data |-> data, ttl |-> ttl,
                          at |-> cacheNow, evicted |-> Truthy(victim)]
      /\ cacheUseOrder' = UsedLast(key)
      /\ UNCHANGED <<cacheConfig, cacheNow>>
      /\ UNCHANGED outsideCache

\* get(key)
CacheGet(key) ==
  LET i == EntryIndex(cache, key) IN
    /\ IF i = 0
         THEN /\ cacheRet' = [hit |-> FALSE,
                              data |-> 0]
              /\ UNCHANGED <<cache, accessOrder, cacheUseOrder>>
         ELSE IF IsExpired(cache[i], cacheNow)
           THEN /\ cache' = MapDelete(cache, key)
                /\ accessOrder' = removeFromAccessOrder(accessOrder, key)
                /\ cacheRet' = [hit |-> FALSE,
                                data |-> 0]
                /\ UNCHANGED cacheUseOrder
           ELSE /\ cache[i].accessCount < MaxAccessCount
                /\ cacheUseOrder' = UsedLast(key)
                /\ cache' = [cache EXCEPT ![i].accessCount = @ + 1]
                /\ accessOrder' = IF cacheConfig.strategy = "lru"
                                    THEN updateAccessOrder(accessOrder, key)
                                    ELSE accessOrder
                /\ cacheRet' = [hit |-> TRUE,
                                data |-> cache[i].data]
    /\ UNCHANGED <<cacheConfig, cacheNow, cacheLastSet>>
    /\ UNCHANGED outsideCache

\* has(key)
CacheHas(key) ==
  LET i == EntryIndex(cache, key) IN
    /\ IF i # 0 /\ IsExpired(cache[i], cacheNow)
         THEN /\ cache' = MapDelete(cache, key)
              /\ accessOrder' = removeFromAccessOrder(accessOrder, key)
         ELSE UNCHANGED <<cache, accessOrder>>
    /\ cacheRet' = [hit |-> i # 0 /\ ~IsExpired(cache[i], cacheNow),
                    data |-> 0]
    /\ UNCHANGED <<cacheConfig, cacheNow, cacheLastSet, cacheUseOrder>>
    /\ UNCHANGED outsideCache

\* delete(key)
CacheDelete(key) ==
  /\ cache' = MapDelete(cache, key)
  /\ accessOrder' = IF CacheHasKey(cache, key)
                      THEN removeFromAccessOrder(accessOrder, key)
                      ELSE accessOrder
  /\ cacheRet' = [hit |-> CacheHasKey(cache, key), data |-> 0]
  /\ cacheLastSet' = NoSet
  /\ UNCHANGED <<cacheConfig, cacheNow, cacheUseOrder>>
  /\ UNCHANGED outsideCache

\* keys()
CacheKeysStored == {cache[i].key : i \in DOMAIN cache}

\* deleteByPrefix(prefix): delete(key) for every stored key with the prefix
CacheDeleteByPrefix(prefix) ==
  LET keysToDelete == {key \in CacheKeysStored : StartsWith(key, prefix)}
  IN  /\ cache' = SelectSeq(cache, LAMBDA e : e.key \notin keysToDelete)
      /\ accessOrder' = SelectSeq(accessOrder,
                                  LAMBDA k : k \notin keysToDelete)
      /\ cacheRet' = [hit |-> FALSE, data |-> Cardinality(keysToDelete)]
      /\ cacheLastSet' = NoSet
      /\ UNCHANGED <<cacheConfig, cacheNow, cacheUseOrder>>
      /\ UNCHANGED outsideCache

\* cleanup(), called by the periodic timer as well
CacheCleanup ==
  /\ cache' = SelectSeq(cache, LAMBDA e : ~IsExpired(e, cacheNow))
  /\ accessOrder' =
       SelectSeq(accessOrder,
                 LAMBDA k : ~IsExpired(cache[EntryIndex(cache, k)], cacheNow))
  /\ cacheRet' = [hit |-> FALSE, data |-> 0]
  /\ UNCHANGED <<cacheConfig, cacheNow, cacheLastSet, cacheUseOrder>>
  /\ UNCHANGED outsideCache

\* clear()
CacheClear ==
  /\ cache' = << >>
  /\ accessOrder' = << >>
  /\ cacheRet' = [hit |-> FALSE, data |-> 0]
  /\ cacheLastSet' = NoSet
  /\ cacheUseOrder' = << >>
  /\ UNCHANGED <<cacheConfig, cacheNow>>
  /\ UNCHANGED outsideCache

\* time passes
CacheTick ==
  /\ cacheNow + CacheTickMs <= MaxCacheTicks * CacheTickMs
  /\ cacheNow' = cacheNow + CacheTickMs
  /\ UNCHANGED <<cache, accessOrder, cacheConfig, cacheRet, cacheLastSet,
                 cacheUseOrder>>
  /\ UNCHANGED outsideCache

NextCache ==
  \/ \E key \in CacheKeys, data \in CacheValues, ttl \in CacheTtls :
       CacheSet(key, data, ttl)
  \/ \E key \in CacheKeys : CacheGet(key)
  \/ \E key \in CacheKeys : CacheHas(key)
  \/ \E key \in CacheKeys : CacheDelete(key)
  \/ \E prefix \in CachePrefixes : CacheDeleteByPrefix(prefix)
  \/ CacheCleanup
  \/ CacheClear
  \/ CacheTick

SpecCache == InitCache /\ [][NextCache]_vars

(***************************************************************************)
(* Specification SpecCacheAnyKey: the same cache with the empty string     *)
(* among its keys, one value and the default ttl.                          *)
(***************************************************************************)
NextCacheAnyKey ==
  \/ \E key \in CacheKeysWithEmpty : CacheSet(key, 1, DefaultQuoteTtl)
  \/ \E key \in CacheKeysWithEmpty : CacheGet(key)
  \/ \E key \in CacheKeysWithEmpty : CacheHas(key)
  \/ \E key \in CacheKeysWithEmpty : CacheDelete(key)
  \/ \E prefix \in CachePrefixes : CacheDeleteByPrefix(prefix)
  \/ CacheCleanup
  \/ CacheClear
  \/ CacheTick

SpecCacheAnyKey == InitCache /\ [][NextCacheAnyKey]_vars

(***************************************************************************)
(* Specification SpecSwap: one DexSwapService (lib/dex/DexSwapService.ts)  *)
(* serving NumRuns concurrent calls of getQuote and executeSwap.  A call   *)
(* runs synchronously up to its next await of the provider, the wallet or  *)
(* the aggregator, so each action is the code from one such await to the   *)
(* next.  The quote cache is built with the default configuration          *)
(* (maxSize 100), so with the keys of the model it is never full and       *)
(* evictEntry is not reached; no progress callback is passed.              *)
(***************************************************************************)
\* the requests of the model: an ERC-20 source token and a whole amount,
\* the same with a malformed wallet address, the same with the amount 0,
\* and the native source token with a fractional amount
SwapRequests ==
  {[fromTokenAddress |-> "USDC", amount |-> "1000000",
    walletAddress |-> "0xWallet"],
   [fromTokenAddress |-> "USDC", amount |-> "1000000",
    walletAddress |-> "bad"],
   [fromTokenAddress |-> "USDC", amount |-> "0",
    walletAddress |-> "0xWallet"],
   [fromTokenAddress |-> NativeToken, amount |-> "1.5",
    walletAddress |-> "0xWallet"]}

\* ethers.isAddress
isAddress(address) == address \in {"USDC", NativeToken, "0xWallet"}

\* validateAmount: a positive number with at most 18 decimal places
validateAmount(amount) == amount \in {"1000000", "1.5"}

\* validateQuoteRequest; validateSwapRequest adds nothing for a request
\* without maxSlippagePercent, deadline, gasPrice and gasLimit
validateQuoteRequest(request) ==
  /\ isAddress(request.fromTokenAddress)
  /\ isAddress(request.walletAddress)
  /\ validateAmount(request.amount)

\* generateQuoteKey; toTokenAddress and slippagePercent are the same in
\* every request of the model
generateQuoteKey(request) ==
  <<"quote", request.fromTokenAddress, "WOKB", request.amount, "10.0">>

\* BigInt(amount) does not throw
BigIntParses(amount) == amount = "1000000"

\* validateTransactionData
validateTransactionData(txData) == txData = "good"

\* simulateTransaction: !txData.to || !txData.data || txData.data === '0x'
SimulationRejects(txData) == txData \in {"emptyTo", "emptyData"}

\* the failure branch of executeSwap: failedSwaps and errorBreakdown
FailedMetrics(metrics, code) ==
  IF swOptions.enableMetrics
    THEN [metrics EXCEPT !.failedSwaps = @ + 1,
                         !.errorBreakdown[code] = @ + 1]
    ELSE metrics

\* one step of call r: its new position, the events it emits, and the new
\* cache, metrics, broadcasts and aggregator calls
Update(r, run, events, entries, metrics, txs, calls) ==
  /\ swRun' = [swRun EXCEPT ![r] = run]
  /\ swEvents' = [swEvents EXCEPT
                    ![r] = IF swOptions.enableEvents THEN @ \o events ELSE @]
  /\ swCache' = entries
  /\ swMetrics' = metrics
  /\ swChain' = [swChain EXCEPT ![r] = @ \o txs]
  /\ swAggCalls' = [swAggCalls EXCEPT ![r] = @ \o calls]
  /\ UNCHANGED <<swOptions, swNow>>
  /\ UNCHANGED outsideSwap

\* an error is thrown in call r: the catch block of getQuote when it is
\* thrown inside getQuote, then the catch block of executeSwap
Throw(r, run, code, events, inQuote, entries, metrics, txs) ==
  LET failed == [run EXCEPT !.pc = "done",
                            !.result = [NoSwapResult EXCEPT !.errorCode = code]]
      quoteEvents == IF inQuote THEN events \o <<"QUOTE_FAILED">> ELSE events
  IN  IF run.kind = "quote"
        THEN Update(r, failed, quoteEvents, entries, metrics, txs, << >>)
        ELSE Update(r, failed, quoteEvents \o <<"SWAP_FAILED">>, entries,
                    FailedMetrics(metrics, code), txs, << >>)

\* getQuote returns the quote: to the caller, or to executeSwap, which goes
\* on with handleTokenApproval up to its first await
QuoteReturned(r, run, quote, cached, events, entries, metrics) ==
  IF run.kind = "quote"
    THEN Update(r, [run EXCEPT !.pc = "done",
                               !.result = [NoSwapResult EXCEPT
                                             !.success = TRUE,
                                             !.quote = quote,
                                             !.cached = cached]],
                events \o <<"QUOTE_RECEIVED">>, entries, metrics, << >>, << >>)
    ELSE IF run.request.fromTokenAddress = NativeToken
      THEN Update(r, [run EXCEPT !.pc = "prepare", !.quote = quote],
                  events \o <<"QUOTE_RECEIVED">>, entries, metrics, << >>,
                  <<"getSwapTx">>)
      ELSE Update(r, [run EXCEPT !.pc = "allowance", !.quote = quote],
                  events \o <<"QUOTE_RECEIVED">>, entries, metrics, << >>,
                  << >>)

\* getQuote from its call to its first await: validation, then the cache
QuoteEntry(r, run, events, metrics) ==
  LET key == generateQuoteKey(run.request)
      i == EntryIndex(swCache, key)
      requested == events \o <<"QUOTE_REQUESTED">>
  IN  IF ~validateQuoteRequest(run.request)
        THEN Throw(r, run, "INVALID_PARAMETERS", requested, TRUE, swCache,
                   metrics, << >>)
      ELSE IF i # 0 /\ ~IsExpired(swCache[i], swNow)
        THEN QuoteReturned(r, run, swCache[i].data, TRUE, requested,
                           [swCache EXCEPT ![i].accessCount = @ + 1], metrics)
      ELSE Update(r, [run EXCEPT !.pc = "fetch", !.attempt = 1], requested,
                  MapDelete(swCache, key), metrics, << >>, <<"getQuote">>)

\* a call may start when the calls before it have started
MayStart(r) ==
  /\ swRun[r] = NoRun
  /\ \A q \in 1..(r - 1) : swRun[q] # NoRun

InitSwap ==
  /\ swOptions \in [enableMetrics : {TRUE}, enableEvents : {TRUE},
                    simulationEnabled : BOOLEAN, hasWallet : BOOLEAN]
  /\ swRun = [r \in Runs |-> NoRun]
  /\ swCache = << >>
  /\ swNow = 0
  /\ swMetrics = NoMetrics
  /\ swEvents = [r \in Runs |-> << >>]
  /\ swChain = [r \in Runs |-> << >>]
  /\ swAggCalls = [r \in Runs |-> << >>]
  /\ swFetched = 0
  /\ VerifyIdle
  /\ RecordsIdle
  /\ RetryIdle
  /\ BreakerIdle
  /\ CacheIdle
  /\ MoreIdle

\* getQuote(request) is called
GetQuote(r, request) ==
  /\ MayStart(r)
  /\ QuoteEntry(r, [NoRun EXCEPT !.kind = "quote", !.request = request],
                << >>, swMetrics)
  /\ UNCHANGED swFetched

\* executeSwap(request) is called: up to the await of validateBalance
ExecuteSwapCall(r, request) ==
  LET run == [NoRun EXCEPT !.kind = "swap", !.request = request] IN
    /\ MayStart(r)
    /\ IF ~swOptions.hasWallet
         THEN Throw(r, run, "INVALID_PARAMETERS", << >>, FALSE, swCache,
                    swMetrics, << >>)
         ELSE Update(r, [run EXCEPT !.pc = "validate"], <<"SWAP_INITIATED">>,
                     swCache,
                     IF swOptions.enableMetrics
                       THEN [swMetrics EXCEPT !.totalSwaps = @ + 1]
                       ELSE swMetrics,
                     << >>, << >>)
    /\ UNCHANGED swFetched

\* a service that does not look at the balance
ValidateCompletesIgnoresBalance(r, balanceSufficient) ==
  LET run == [swRun[r] EXCEPT
                !.balance = IF balanceSufficient THEN "sufficient"
                                                 ELSE "insufficient"]
  IN  /\ run.pc = "validate"
      /\ IF validateQuoteRequest(run.request)
           THEN QuoteEntry(r, run, << >>, swMetrics)
           ELSE Throw(r, run, "INVALID_PARAMETERS", << >>, FALSE, swCache,
                      swMetrics, << >>)
      /\ UNCHANGED swFetched

\* validateCompleteSwapRequest is over; a valid request goes on to getQuote
ValidateCompletes(r, balanceSufficient) ==
  LET run == [swRun[r] EXCEPT
                !.balance = IF balanceSufficient THEN "sufficient"
                                                 ELSE "insufficient"]
  IN
    /\ run.pc = "validate"
    /\ IF validateQuoteRequest(run.request) /\ balanceSufficient
         THEN QuoteEntry(r, run, << >>, swMetrics)
         ELSE Throw(r, run, "INVALID_PARAMETERS", << >>, FALSE, swCache,
                    swMetrics, << >>)
    /\ UNCHANGED swFetched

\* mutant: the quote is stored with no time to live
StoredQuoteNoTtl(request, quote) ==
  CacheEntry(generateQuoteKey(request), quote, 0, swNow)

\* this.cacheManager.set(cacheKey, quoteResponse): the entry stored
StoredQuote(request, quote) ==
  CacheEntry(generateQuoteKey(request), quote, DefaultQuoteTtl, swNow)

\* the aggregator answers with a quote: executeWithRetry returns it, and
\* getQuote stores it in the cache
FetchReturns(r) ==
  LET run == swRun[r]
      quote == swFetched + 1
  IN  /\ run.pc = "fetch"
      /\ swFetched' = quote
      /\ QuoteReturned(r, run, quote, FALSE, << >>,
                       MapSet(swCache, StoredQuote(run.request, quote)),
                       swMetrics)

\* the aggregator call fails: networkRetry sleeps and tries again, or gives
\* the error to getQuote
FetchThrows(r, code) ==
  LET run == swRun[r]
      error == DexSwapError(code, 0)
  IN  /\ run.pc = "fetch"
      /\ IF /\ isRetryableError(error, NetworkRetryConfig.retryableErrors)
            /\ run.attempt < NetworkRetryConfig.maxAttempts
           THEN Update(r, [run EXCEPT !.pc = "sleep"], << >>, swCache,
                       swMetrics, << >>, << >>)
           ELSE Throw(r, run, code, << >>, TRUE, swCache, swMetrics, << >>)
      /\ UNCHANGED swFetched

\* the sleep of networkRetry is over: the next attempt
QuoteSleepEnds(r) ==
  LET run == swRun[r] IN
    /\ run.pc = "sleep"
    /\ LoopContinues(run.attempt + 1, NetworkRetryConfig.maxAttempts)
    /\ Update(r, [run EXCEPT !.pc = "fetch", !.attempt = @ + 1], << >>,
              swCache, swMetrics, << >>, <<"getQuote">>)
    /\ UNCHANGED swFetched

\* validateAllowance is over: an approval transaction is sent when the
\* allowance is short or could not be read
AllowanceCompletes(r, sufficient) ==
  LET run == [swRun[r] EXCEPT
                !.allowance = IF sufficient THEN "sufficient"
                                            ELSE "insufficient"]
  IN
    /\ swRun[r].pc = "allowance"
    /\ IF sufficient
         THEN Update(r, [run EXCEPT !.pc = "prepare"], << >>, swCache,
                     swMetrics, << >>, <<"getSwapTx">>)
         ELSE Update(r, [run EXCEPT !.pc = "approveSend"],
                     <<"APPROVAL_REQUIRED">>, swCache, swMetrics, << >>, << >>)
    /\ UNCHANGED swFetched

\* a service that does not wait for the approval to be confirmed
ApproveSendReturnsNoWait(r) ==
  LET run == swRun[r] IN
    /\ run.pc = "approveSend"
    /\ Update(r, [run EXCEPT !.pc = "prepare"], <<"APPROVAL_COMPLETED">>,
              swCache, swMetrics, <<"approval">>, <<"getSwapTx">>)
    /\ UNCHANGED swFetched

\* tokenContract.approve returns: the approval transaction is broadcast
ApproveSendReturns(r) ==
  LET run == swRun[r] IN
    /\ run.pc = "approveSend"
    /\ Update(r, [run EXCEPT !.pc = "approveWait"], << >>, swCache, swMetrics,
              <<"approval">>, << >>)
    /\ UNCHANGED swFetched

\* tx.wait() returns: the approval is confirmed
ApproveWaitReturns(r) ==
  LET run == swRun[r] IN
    /\ run.pc = "approveWait"
    /\ Update(r, [run EXCEPT !.pc = "prepare"], <<"APPROVAL_COMPLETED">>,
              swCache, swMetrics, << >>, <<"getSwapTx">>)
    /\ UNCHANGED swFetched

\* okxClient.dex.getSwapTx returns: validation of the transaction data,
\* the simulation gate when it is enabled, then wallet.sendTransaction
PrepareReturns(r, txData) ==
  LET run == [swRun[r] EXCEPT !.txData = txData] IN
    /\ swRun[r].pc = "prepare"
    /\ IF ~validateTransactionData(txData)
         THEN Throw(r, run, "INVALID_PARAMETERS", << >>, FALSE, swCache,
                    swMetrics, << >>)
       ELSE IF ~swOptions.simulationEnabled
         THEN Update(r, [run EXCEPT !.pc = "send"], << >>, swCache, swMetrics,
                     << >>, << >>)
       ELSE IF SimulationRejects(txData)
         THEN Throw(r, run, "TRANSACTION_FAILED", <<"SIMULATION_STARTED">>,
                    FALSE, swCache, swMetrics, << >>)
       ELSE Update(r, [run EXCEPT !.pc = "send"],
                   <<"SIMULATION_STARTED", "SIMULATION_COMPLETED">>, swCache,
                   swMetrics, << >>, << >>)
    /\ UNCHANGED swFetched

\* wallet.sendTransaction returns: the swap transaction is broadcast
SendReturns(r) ==
  LET run == swRun[r] IN
    /\ run.pc = "send"
    /\ Update(r, [run EXCEPT !.pc = "confirm"], <<"TRANSACTION_SUBMITTED">>,
              swCache, swMetrics, <<"swap">>, << >>)
    /\ UNCHANGED swFetched

\* a service that checks that there is a receipt, but not its status
ConfirmReturnsIgnoresStatus(r, receipt) ==
  LET run == [swRun[r] EXCEPT !.receipt = receipt]
      updated == [swMetrics EXCEPT !.successfulSwaps = @ + 1,
                                   !.volumeUpdates = @ + 1,
                                   !.gasUpdates = @ + 1]
  IN  /\ run.pc = "confirm"
      /\ IF receipt = "null"
           THEN Throw(r, run, "TRANSACTION_FAILED", << >>, FALSE, swCache,
                      swMetrics, << >>)
           ELSE Update(r, [run EXCEPT !.pc = "done",
                                      !.result = [NoSwapResult EXCEPT
                                                    !.success = TRUE,
                                                    !.quote = run.quote]],
                       <<"TRANSACTION_CONFIRMED", "SWAP_COMPLETED">>, swCache,
                       updated, << >>, << >>)
      /\ UNCHANGED swFetched

\* provider.waitForTransaction returns null, a reverted or a successful
\* receipt; after a successful one the metrics are updated, where
\* updateVolumeMetrics throws when BigInt cannot read the amount
ConfirmReturns(r, receipt) ==
  LET run == [swRun[r] EXCEPT !.receipt = receipt]
      counted == [swMetrics EXCEPT !.successfulSwaps = @ + 1]
      updated == [counted EXCEPT !.volumeUpdates = @ + 1,
                                 !.gasUpdates = @ + 1]
  IN  /\ run.pc = "confirm"
      /\ IF receipt # "success"
           THEN Throw(r, run, "TRANSACTION_FAILED", << >>, FALSE, swCache,
                      swMetrics, << >>)
         ELSE IF swOptions.enableMetrics /\ ~BigIntParses(run.request.amount)
           THEN Throw(r, run, "UNKNOWN_ERROR", <<"TRANSACTION_CONFIRMED">>,
                      FALSE, swCache, counted, << >>)
         ELSE Update(r, [run EXCEPT !.pc = "done",
                                    !.result = [NoSwapResult EXCEPT
                                                  !.success = TRUE,
                                                  !.quote = run.quote]],
                     <<"TRANSACTION_CONFIRMED", "SWAP_COMPLETED">>, swCache,
                     IF swOptions.enableMetrics THEN updated ELSE swMetrics,
                     << >>, << >>)
      /\ UNCHANGED swFetched

\* an awaited call of the wallet, the provider or the aggregator throws
\* while executeSwap approves, builds, sends or confirms
SwapCallThrows(r, code) ==
  LET run == swRun[r] IN
    /\ run.pc \in {"approveSend", "approveWait", "prepare", "send", "confirm"}
    /\ Throw(r, run, code, << >>, FALSE, swCache, swMetrics, << >>)
    /\ UNCHANGED swFetched

\* time passes
SwapTick ==
  /\ swNow + SwapTickMs <= MaxSwapTicks * SwapTickMs
  /\ swNow' = swNow + SwapTickMs
  /\ UNCHANGED <<swOptions, swRun, swCache, swMetrics, swEvents, swChain,
                 swAggCalls, swFetched>>
  /\ UNCHANGED outsideSwap

NextSwap ==
  \/ \E r \in Runs, request \in SwapRequests : GetQuote(r, request)
  \/ \E r \in Runs, request \in SwapRequests : ExecuteSwapCall(r, request)
  \/ \E r \in Runs, balanceSufficient \in BOOLEAN :
       ValidateCompletes(r, balanceSufficient)
  \/ \E r \in Runs : FetchReturns(r)
  \/ \E r \in Runs, code \in {"NETWORK_ERROR", "API_ERROR"} :
       FetchThrows(r, code)
  \/ \E r \in Runs : QuoteSleepEnds(r)
  \/ \E r \in Runs, sufficient \in BOOLEAN : AllowanceCompletes(r, sufficient)
  \/ \E r \in Runs : ApproveSendReturns(r)
  \/ \E r \in Runs : ApproveWaitReturns(r)
  \/ \E r \in Runs, txData \in {"good", "emptyTo", "emptyData"} :
       PrepareReturns(r, txData)
  \/ \E r \in Runs : SendReturns(r)
  \/ \E r \in Runs, receipt \in {"success", "reverted", "null"} :
       ConfirmReturns(r, receipt)
  \/ \E r \in Runs : SwapCallThrows(r, "NETWORK_ERROR")
  \/ SwapTick

SpecSwap == InitSwap /\ [][NextSwap]_vars

(***************************************************************************)
(* DexEventEmitter (events.ts): listeners, global listeners and the event  *)
(* history.  Every method is synchronous, so each call is one step.  A Set *)
(* object has an identity: the unsubscribe function that on() returns      *)
(* keeps the Set its callback was added to, whatever this.listeners holds  *)
(* under the event type later.  Callbacks do nothing but take the event;   *)
(* the wrapper that once() registers also unsubscribes itself.  An event   *)
(* is its type and its number in the order of the emit calls; timestamps   *)
(* and payloads are left out.  getEventHistory and the statistics methods  *)
(* only read.                                                              *)
(***************************************************************************)
\* the callbacks that emit would notify for the type
Subscribed(type) ==
  IF evListeners[type] = 0 THEN {} ELSE evSets[evListeners[type]]

\* mutant: the newest event is dropped when the history is full
addToHistoryDropNewest(history, event) ==
  IF Len(history) + 1 > MaxHistorySize THEN history ELSE Append(history, event)

\* addToHistory: push, then shift when the history is too long
addToHistory(history, event) ==
  LET pushed == Append(history, event) IN
    IF Len(pushed) > MaxHistorySize THEN Tail(pushed) ELSE pushed

\* listeners.delete(callback), then this.listeners.delete(eventType) when
\* that Set is empty: the entry under the type goes, whichever Set it held
DeleteFrom(set, type, callback) ==
  /\ evSets' = [evSets EXCEPT ![set] = @ \ {callback}]
  /\ evListeners' = IF evSets[set] \ {callback} = {}
                      THEN [evListeners EXCEPT ![type] = 0]
                      ELSE evListeners

\* on(eventType, callback), also as called by once(): a Set is created when
\* the type has none, the callback is added, an unsubscribe function returned
Register(op, type, callback) ==
  LET fresh == evListeners[type] = 0
      set == IF fresh THEN Len(evSets) + 1 ELSE evListeners[type]
  IN  /\ fresh => Len(evSets) < MaxSets
      /\ evSets' = IF fresh THEN Append(evSets, {callback})
                            ELSE [evSets EXCEPT ![set] = @ \cup {callback}]
      /\ evListeners' = [evListeners EXCEPT ![type] = set]
      /\ evUnsubs' = evUnsubs \cup
                       {[set |-> set, type |-> type, callback |-> callback]}
      /\ evLast' = [NoOp EXCEPT !.op = op, !.type = type,
                                !.callback = callback]
      /\ UNCHANGED <<evGlobal, evHistory, evEmitted>>
      /\ UNCHANGED outsideEvents

On(type, callback) ==
  /\ evEmitted < MaxListenerEmits
  /\ Register("on", type, callback)

\* once(eventType, callback): on() with a new wrapper function
Once(type, wrapper) ==
  /\ evEmitted < MaxListenerEmits
  /\ \A u \in evUnsubs : u.callback # wrapper
  /\ Register("once", type, wrapper)

\* onAll(callback)
OnAll(callback) ==
  /\ evEmitted < MaxListenerEmits
  /\ evGlobal' = evGlobal \cup {callback}
  /\ evLast' = [NoOp EXCEPT !.op = "onAll", !.callback = callback]
  /\ UNCHANGED <<evListeners, evSets, evUnsubs, evHistory, evEmitted>>
  /\ UNCHANGED outsideEvents

\* the function that onAll returned is called
UnsubscribeAll(callback) ==
  /\ evEmitted < MaxListenerEmits
  /\ callback \in evGlobal
  /\ evGlobal' = evGlobal \ {callback}
  /\ evLast' = [NoOp EXCEPT !.op = "unsubscribeAll", !.callback = callback]
  /\ UNCHANGED <<evListeners, evSets, evUnsubs, evHistory, evEmitted>>
  /\ UNCHANGED outsideEvents

\* an unsubscribe function that on() or once() returned is called
Unsubscribe(set, type, callback) ==
  /\ evEmitted < MaxListenerEmits
  /\ [set |-> set, type |-> type, callback |-> callback] \in evUnsubs
  /\ DeleteFrom(set, type, callback)
  /\ evLast' = [NoOp EXCEPT !.op = "unsubscribe", !.type = type,
                            !.callback = callback]
  /\ UNCHANGED <<evGlobal, evUnsubs, evHistory, evEmitted>>
  /\ UNCHANGED outsideEvents

\* off(eventType, callback)
Off(type, callback) ==
  /\ evEmitted < MaxListenerEmits
  /\ IF evListeners[type] # 0
       THEN DeleteFrom(evListeners[type], type, callback)
       ELSE UNCHANGED <<evListeners, evSets>>
  /\ evLast' = [NoOp EXCEPT !.op = "off", !.type = type,
                            !.callback = callback]
  /\ UNCHANGED <<evGlobal, evUnsubs, evHistory, evEmitted>>
  /\ UNCHANGED outsideEvents

\* removeAllListeners(eventType)
RemoveListenersOf(type) ==
  /\ evEmitted < MaxListenerEmits
  /\ evListeners' = [evListeners EXCEPT ![type] = 0]
  /\ evLast' = [NoOp EXCEPT !.op = "removeAllListeners", !.type = type]
  /\ UNCHANGED <<evSets, evGlobal, evUnsubs, evHistory, evEmitted>>
  /\ UNCHANGED outsideEvents

\* removeAllListeners()
RemoveAllListeners ==
  /\ evEmitted < MaxListenerEmits
  /\ evListeners' = [type \in EventTypes |-> 0]
  /\ evGlobal' = {}
  /\ evLast' = [NoOp EXCEPT !.op = "removeAllListeners"]
  /\ UNCHANGED <<evSets, evUnsubs, evHistory, evEmitted>>
  /\ UNCHANGED outsideEvents

\* emit(eventType, data): the event is added to the history, then the
\* listeners of the type and the global listeners are called; a once()
\* wrapper unsubscribes itself when it is called
EmitEvent(type) ==
  LET event == [type |-> type, seq |-> evEmitted + 1]
      history == addToHistory(evHistory, event)
      set == evListeners[type]
      called == Subscribed(type)
      wrappers == called \cap OnceWrappers
  IN  /\ evHistory' = history
      /\ evEmitted' = evEmitted + 1
      /\ IF wrappers = {}
           THEN UNCHANGED <<evListeners, evSets>>
           ELSE /\ evSets' = [evSets EXCEPT ![set] = @ \ wrappers]
                /\ evListeners' = IF called \ wrappers = {}
                                    THEN [evListeners EXCEPT ![type] = 0]
                                    ELSE evListeners
      /\ evLast' = [NoOp EXCEPT
                      !.op = "emit", !.type = type,
                      !.notified = called \cup evGlobal,
                      !.seen = \E i \in DOMAIN history : history[i] = event]
      /\ UNCHANGED <<evGlobal, evUnsubs>>
      /\ UNCHANGED outsideEvents

Emit(type) ==
  /\ evEmitted < MaxListenerEmits
  /\ EmitEvent(type)

\* clearHistory()
ClearHistory ==
  /\ evHistory # << >>
  /\ evHistory' = << >>
  /\ evLast' = [NoOp EXCEPT !.op = "clearHistory"]
  /\ UNCHANGED <<evListeners, evSets, evGlobal, evUnsubs, evEmitted>>
  /\ UNCHANGED outsideEvents

InitEvents ==
  /\ EventsIdle
  /\ VerifyIdle
  /\ RecordsIdle
  /\ RetryIdle
  /\ BreakerIdle
  /\ CacheIdle
  /\ SwapIdle
  /\ ActiveIdle
  /\ TimeIdle
  /\ OkxIdle

NextEvents ==
  \/ \E type \in EventTypes, callback \in Callbacks : On(type, callback)
  \/ \E type \in EventTypes, wrapper \in OnceWrappers : Once(type, wrapper)
  \/ \E callback \in Callbacks : OnAll(callback)
  \/ \E callback \in Callbacks : UnsubscribeAll(callback)
  \/ \E set \in 1..MaxSets, type \in EventTypes,
          callback \in Callbacks \cup OnceWrappers :
       Unsubscribe(set, type, callback)
  \/ \E type \in EventTypes, callback \in Callbacks : Off(type, callback)
  \/ \E type \in EventTypes : RemoveListenersOf(type)
  \/ RemoveAllListeners
  \/ \E type \in EventTypes : Emit(type)
  \/ ClearHistory

SpecEvents == InitEvents /\ [][NextEvents]_vars

(***************************************************************************)
(* The event history over a long run: listeners are registered before the  *)
(* first emit, then events of one type are emitted, more of them than the  *)
(* history holds.                                                          *)
(***************************************************************************)
EarlyOn(type, callback) ==
  /\ evEmitted = 0
  /\ Register("on", type, callback)

EarlyOnAll(callback) ==
  /\ evEmitted = 0
  /\ callback \notin evGlobal
  /\ evGlobal' = evGlobal \cup {callback}
  /\ evLast' = [NoOp EXCEPT !.op = "onAll", !.callback = callback]
  /\ UNCHANGED <<evListeners, evSets, evUnsubs, evHistory, evEmitted>>
  /\ UNCHANGED outsideEvents

LongEmit(type) ==
  /\ evEmitted < MaxHistoryEmits
  /\ EmitEvent(type)

NextHistory ==
  \/ \E type \in HistoryEventTypes : EarlyOn(type, "cb1")
  \/ EarlyOnAll("cb2")
  \/ \E type \in HistoryEventTypes : LongEmit(type)

SpecHistory == InitEvents /\ [][NextHistory]_vars

(***************************************************************************)
(* Properties of the /verify pipeline                                      *)
(***************************************************************************)
Done(r) == pc[r] = "done"

\* the request was answered as paid: 200, or 500 MINT_FAILED after payment
Paid(r) == Done(r) /\ resp[r].error \in {"", "MINT_FAILED"}

Duplicate(r) == Done(r) /\ resp[r].error = "DUPLICATE_NONCE"

AnyTrue(results) == TRUE \in {results[i] : i \in DOMAIN results}

NoSideEffects(r) ==
  /\ hist[r].settleCalls = 0
  /\ hist[r].paymentWrites = 0
  /\ hist[r].incrs = 0
  /\ hist[r].swapCalls = 0
  /\ hist[r].mintAppends = 0

\* C1: of two requests that carry the same nonce and are processed
\* concurrently, exactly one reaches settlement and writes the
\* PaymentRecord and the other one is answered DUPLICATE_NONCE.
C1_ExactlyOneSettles ==
  \A r \in Reqs : \A q \in hist[r].overlapped :
    ( /\ req[r].nonce = req[q].nonce
      /\ (Paid(r) \/ Duplicate(r))
      /\ (Paid(q) \/ Duplicate(q)) )
    => \/ Paid(q) /\ hist[q].paymentWrites = 1 /\ Duplicate(r)
          /\ hist[r].settleCalls = 0
       \/ Paid(r) /\ hist[r].paymentWrites = 1 /\ Duplicate(q)
          /\ hist[q].settleCalls = 0

\* C2: the mint counter never exceeds max_mint_count, however many requests
\* with distinct nonces settle concurrently.
C2_CounterWithinMax ==
  (\A r, q \in Reqs :
     (r # q /\ pc[r] # "idle" /\ pc[q] # "idle") => req[r].nonce # req[q].nonce)
  => mintCount <= ParseMaxCount(templateConfig)

\* C3: a request that arrives while the PaymentRecord of its nonce is stored
\* and less than 24h old is answered DUPLICATE_NONCE at once, and a request
\* answered DUPLICATE_NONCE has called neither the settlement provider nor
\* the counter, the swap or the mint-record list.
C3_ReplayRejected ==
  /\ [][\A r \in Reqs :
          ( /\ pc[r] = "idle" /\ pc'[r] # "idle"
            /\ resp'[r].error # "VALIDATION_ERROR"
            /\ paymentNonce[req'[r].nonce].present
            /\ now < paymentNonce[req'[r].nonce].created_at + NonceTtlSeconds )
          => ( /\ pc'[r] = "done"
               /\ resp'[r].error = "DUPLICATE_NONCE"
               /\ resp'[r].http = 400
               /\ ledger' = ledger )]_vars
  /\ [](\A r \in Reqs : resp[r].error = "DUPLICATE_NONCE" =>
          Done(r) /\ NoSideEffects(r))

\* C3 witness: a replay was rejected at a later time than the record's creation
C3_Witness ==
  \E r \in Reqs :
    /\ Duplicate(r)
    /\ paymentNonce[req[r].nonce].present
    /\ paymentNonce[req[r].nonce].created_at < now
    /\ now < paymentNonce[req[r].nonce].created_at + NonceTtlSeconds
    /\ \E q \in Reqs : q # r /\ Paid(q) /\ req[q].nonce = req[r].nonce

\* C4 as stated: every token-mint request that arrives while
\* currentCount >= maxCount is answered MINT_LIMIT_REACHED with the counts
\* and never calls the settlement provider.
C4_QuotaFullAlwaysQuotaError ==
  \A r \in Reqs :
    (Done(r) /\ req[r].templateId = TokenMint /\ hist[r].quotaFullAtArrival)
    => ( /\ resp[r].error = "MINT_LIMIT_REACHED"
         /\ hist[r].settleCalls = 0 )

\* C4 (amended): a parsed token-mint request that arrives while
\* currentCount >= maxCount never calls the settlement provider; it is
\* answered MINT_LIMIT_REACHED carrying the current and max counts, unless
\* its nonce already has a stored PaymentRecord, in which case the nonce
\* gate answers DUPLICATE_NONCE first.
C4_QuotaFullSkipsSettlement ==
  \A r \in Reqs :
    (pc[r] # "idle" /\ req[r].templateId = TokenMint
       /\ hist[r].quotaFullAtArrival)
    => ( /\ NoSideEffects(r)
         /\ pc[r] \in {"cfgExists", "cfgSet", "cfgGet", "getCount", "done"}
         /\ Done(r) => \/ Duplicate(r)
                       \/ /\ resp[r].error = "MINT_LIMIT_REACHED"
                          /\ resp[r].http = 400
                          /\ resp[r].maxCount = ParseMaxCount(templateConfig)
                          /\ resp[r].currentCount >= resp[r].maxCount
                          /\ resp[r].currentCount <= mintCount )

\* C4 witness: a request that arrived at 10/10 got the quota error
C4_Witness ==
  \E r \in Reqs :
    /\ Done(r) /\ hist[r].quotaFullAtArrival
    /\ resp[r].error = "MINT_LIMIT_REACHED"
    /\ resp[r].currentCount = DefaultMaxMintCount
    /\ resp[r].maxCount = DefaultMaxMintCount

\* C5: a request that passes the nonce and quota gates calls okxClient.settle
\* exactly once, whatever happens afterwards; a request rejected at a gate
\* calls it zero times.
C5_SettleExactlyOnce ==
  \A r \in Reqs :
    /\ hist[r].settleCalls <= 1
    /\ pc[r] \in {"idle", "cfgExists", "cfgSet", "cfgGet", "getCount", "settle"}
         => hist[r].settleCalls = 0
    /\ pc[r] \in {"savePayment", "incr", "executeSwap", "mintPush", "mintTrim"}
         => hist[r].settleCalls = 1
    /\ (Done(r) /\ resp[r].error \in {"", "MINT_FAILED", "SETTLEMENT_FAILED",
                                      "PAYMENT_ERROR"})
         => hist[r].settleCalls = 1
    /\ (Done(r) /\ resp[r].error \in {"DUPLICATE_NONCE", "MINT_LIMIT_REACHED",
                                      "VALIDATION_ERROR"})
         => hist[r].settleCalls = 0

\* C5 witness: one request failed at settlement, another went through a
\* failed swap, each after a single settle call
C5_Witness ==
  \E r, q \in Reqs :
    /\ Done(r) /\ resp[r].error = "SETTLEMENT_FAILED" /\ hist[r].settleCalls = 1
    /\ Done(q) /\ hist[q].swapResult = "failure" /\ hist[q].settleCalls = 1

\* C6: the settlement counts as successful exactly when the provider's list
\* holds a success=true entry; otherwise the request ends with
\* SETTLEMENT_FAILED and has written no PaymentRecord, incremented no
\* counter, attempted no swap and appended no MintRecord.
C6_SuccessIffSomeTrue ==
  /\ [][\A r \in Reqs :
          ( /\ pc[r] = "settle"
            /\ hist'[r].settleCalls = hist[r].settleCalls + 1
            /\ resp'[r].error # "PAYMENT_ERROR" )
          => IF AnyTrue(loc'[r].settleResult)
               THEN pc'[r] = "savePayment" /\ resp'[r] = NoResp
               ELSE /\ pc'[r] = "done"
                    /\ resp'[r].error = "SETTLEMENT_FAILED"
                    /\ resp'[r].http = 400]_vars
  /\ [](\A r \in Reqs :
          /\ resp[r].error = "SETTLEMENT_FAILED" =>
               /\ Done(r)
               /\ ~AnyTrue(loc[r].settleResult)
               /\ hist[r].paymentWrites = 0 /\ hist[r].incrs = 0
               /\ hist[r].swapCalls = 0 /\ hist[r].mintAppends = 0
          /\ hist[r].paymentWrites > 0 => resp[r].error # "SETTLEMENT_FAILED")

\* C6 witness: an all-false list ended one request, a mixed list let another
\* one through to savePaymentRecord
C6_Witness ==
  \E r, q \in Reqs :
    /\ Done(r) /\ resp[r].error = "SETTLEMENT_FAILED"
    /\ Len(loc[r].settleResult) = MaxResults
    /\ pc[q] = "savePayment"
    /\ \E i, j \in DOMAIN loc[q].settleResult :
         loc[q].settleResult[i] /\ ~loc[q].settleResult[j]

\* C7: within a token-mint request the PaymentRecord is written only after
\* the settlement succeeded, the counter is incremented only after the
\* record was written and the swap is attempted only after the increment.
C7_StepOrder ==
  /\ [](\A r \in Reqs :
          /\ hist[r].paymentWrites > 0 =>
               hist[r].settleCalls = 1
               /\ resp[r].error \notin {"SETTLEMENT_FAILED", "PAYMENT_ERROR"}
          /\ hist[r].incrs > 0 =>
               hist[r].paymentWrites = 1 /\ req[r].templateId = TokenMint
          /\ hist[r].swapCalls > 0 => hist[r].incrs = 1
          /\ hist[r].mintAppends > 0 => hist[r].swapCalls = 1)
  /\ [][mintCount' # mintCount =>
          \E r \in Reqs :
            /\ hist'[r].incrs = hist[r].incrs + 1
            /\ hist[r].settleCalls = 1 /\ hist[r].paymentWrites = 1
            /\ hist[r].swapCalls = 0
            /\ paymentNonce[req[r].nonce].present]_vars

\* C7 witness: a request went through all four steps
C7_Witness ==
  \E r \in Reqs :
    /\ hist[r].settleCalls = 1 /\ hist[r].paymentWrites = 1
    /\ hist[r].incrs = 1 /\ hist[r].swapCalls = 1

\* C8: whenever the settlement succeeded and the swap did not, the response
\* reports the payment as recorded and carries a failure detail for the
\* mint/swap leg.
C8_SwapFailureReported ==
  \A r \in Reqs :
    (Done(r) /\ hist[r].paymentWrites = 1 /\ hist[r].swapResult = "failure")
    => ( /\ resp[r].payment_record_id = req[r].nonce
         /\ resp[r].error = "MINT_FAILED"
         /\ resp[r].details # "" )

\* C9: the mint counter never decreases, and no step of a request's mint leg
\* (the swap, whatever its outcome, and the MintRecord write) changes the
\* PaymentRecord or the counter again.
C9_NoRollback ==
  /\ [][mintCount' >= mintCount]_vars
  /\ [][\A r \in Reqs :
          (pc[r] \in {"executeSwap", "mintPush", "mintTrim"} /\ pc'[r] # pc[r])
          => ( /\ mintCount' = mintCount
               /\ paymentNonce' = paymentNonce
               /\ paymentNonce[req[r].nonce].present )]_vars
  /\ [](\A r \in Reqs :
          hist[r].incrs = 1 =>
            paymentNonce[req[r].nonce].present /\ mintCount >= 1)

\* C9 witness: a request whose swap failed is done, its record and its
\* increment are still there
C9_Witness ==
  \E r \in Reqs :
    /\ Done(r) /\ hist[r].swapResult = "failure" /\ hist[r].incrs = 1
    /\ paymentNonce[req[r].nonce].present
    /\ mintCount >= 1

\* C10: every token-mint request whose settlement succeeded has, once it is
\* answered, incremented the counter exactly once and appended exactly one
\* MintRecord.
C10_OneIncrementOneRecord ==
  \A r \in Reqs :
    (Done(r) /\ req[r].templateId = TokenMint /\ hist[r].paymentWrites = 1)
    => hist[r].incrs = 1 /\ hist[r].mintAppends = 1

\* C11: a MintRecord written after a failed swap is stored with a failure
\* status, and a stored MintRecord has status 'success' only when its swap
\* succeeded and produced a transaction hash.
C11_FailedSwapStoredAsFailed ==
  \A a \in Addrs : \A i \in DOMAIN mintRecords[a] :
    LET m == mintRecords[a][i] IN
      /\ ~m.swap_result.success => m.status = "failed"
      /\ m.status = "success" => (m.swap_result.success /\ m.tx_hash # 0)

\* C12: the PaymentRecord of a nonce is written at most once, also under
\* concurrent requests: while the record of a nonce is stored and not
\* expired, no request writes it again and none of its fields, created_at
\* included, changes.
C12_PaymentRecordWrittenOnce ==
  [][\A n \in Nonces :
       checkNonceExists(n) =>
         /\ paymentNonce'[n] = paymentNonce[n]
         /\ \A r \in Reqs :
              req[r].nonce = n =>
                hist'[r].paymentWrites = hist[r].paymentWrites]_vars

\* C13: once every saveMintRecord call for an address has completed, its
\* list holds at most 50 entries, the 50 most recently appended ones,
\* newest first; and the records endpoint never returns more than 50
\* entries.
C13_ListHoldsNewestFifty ==
  /\ (\A c \in Savers : saverPc[c] = "idle") =>
       /\ Len(recordsList) = Min(appended, MaxMintRecords)
       /\ \A i \in DOMAIN recordsList : recordsList[i] = appended - i + 1
  /\ recordsCount <= RecordsMaxLimit

\* a request answered with one of the errors that precede settlement
Rejected(r) ==
  /\ Done(r)
  /\ resp[r].error \in {"VALIDATION_ERROR", "DUPLICATE_NONCE",
                         "MINT_LIMIT_REACHED"}

\* the steps of the handler that come before settlement
BeforeSettlement == {"idle", "cfgExists", "cfgSet", "cfgGet", "getCount"}

\* C14: a request rejected with DUPLICATE_NONCE, MINT_LIMIT_REACHED or a
\* validation error has created or modified no ledger key: no payment
\* record, counter, mint-record list or template configuration.
C14_RejectedLeavesLedgerUnchanged ==
  \A r \in Reqs :
    Rejected(r) => (NoSideEffects(r) /\ ~hist[r].configCreated)

\* C14, amended: a rejected request has written no payment record, counter
\* or mint-record list; the one ledger write a step before settlement can
\* make is the creation of the absent template configuration with its
\* default quota.
C14_RejectedWritesOnlyConfig ==
  /\ [](\A r \in Reqs : Rejected(r) => NoSideEffects(r))
  /\ [][\A r \in Reqs :
          (pc[r] \in BeforeSettlement /\ pc'[r] # pc[r]) =>
            /\ paymentNonce' = paymentNonce
            /\ mintCount' = mintCount
            /\ mintRecords' = mintRecords
            /\ \/ templateConfig' = templateConfig
               \/ /\ ~templateConfig.present
                  /\ templateConfig' =
                       [present |-> TRUE,
                        max_mint_count |-> DefaultMaxMintCount]]_vars

\* C14 witness: a request that created the template configuration is
\* answered MINT_LIMIT_REACHED
C14_Witness ==
  \E r \in Reqs :
    /\ Done(r) /\ resp[r].error = "MINT_LIMIT_REACHED"
    /\ hist[r].configCreated
    /\ templateConfig = InitialTemplateConfig

(***************************************************************************)
(* Properties of the retry engine                                          *)
(***************************************************************************)
\* the error code an error stands for: its own code, or the one its
\* message is read as
ErrorKind(error) ==
  CASE error.kind = "dex" -> error.code
    [] error.kind = "plain" /\ "timeout" \in error.words -> "NETWORK_ERROR"
    [] error.kind = "plain" /\ "timeout" \notin error.words
         /\ "503" \in error.words -> "API_ERROR"
    [] OTHER -> "UNKNOWN_ERROR"

\* invocation number i of the operation throws a retryable error
FailsRetryably(i) ==
  /\ rtScript[i] # Returns
  /\ ErrorKind(rtScript[i]) \in rtConfig.retryableErrors

\* invocation number i of the operation throws a non-retryable error
FailsForGood(i) ==
  /\ rtScript[i] # Returns
  /\ ErrorKind(rtScript[i]) \notin rtConfig.retryableErrors

\* C15: an operation that fails retryably on its first N-1 invocations and
\* returns on invocation N, 1 <= N <= maxAttempts, is invoked exactly N
\* times and the call answers success with the value of invocation N and
\* attempts = N.
C15_SucceedsOnNthAttempt ==
  \A N \in 1..MaxAttemptsBound :
    ( /\ N <= rtConfig.maxAttempts
      /\ \A i \in 1..(N - 1) : FailsRetryably(i)
      /\ rtScript[N] = Returns )
    => /\ rtInvocations <= N
       /\ rtPc = "done" =>
            /\ rtInvocations = N
            /\ rtResult = [success |-> TRUE, result |-> N, error |-> NoError,
                            attempts |-> N]

\* C15 witness: the call succeeded on its last allowed attempt, after
\* retries
C15_Witness ==
  /\ rtPc = "done" /\ rtResult.success
  /\ rtInvocations = rtConfig.maxAttempts /\ rtInvocations >= 2
  /\ \A i \in 1..(rtInvocations - 1) : FailsRetryably(i)

\* C16: once an invocation has thrown a non-retryable error the call is
\* over: the operation is not invoked again, no delay follows the error,
\* and the answer is a failure carrying that error; when the first
\* invocation does so, attempts = 1.
C16_NonRetryableStopsAtOnce ==
  \A k \in 1..MaxAttemptsBound :
    (Len(rtThrown) >= k /\ FailsForGood(k))
    => /\ rtPc = "done"
       /\ rtInvocations = k
       /\ Len(rtDelays) = k - 1
       /\ rtResult = [success |-> FALSE, result |-> 0,
                       error |-> Thrown(rtScript[k], k), attempts |-> k]

\* C16 witness: the second invocation threw a non-retryable error
C16_Witness ==
  /\ rtPc = "done" /\ ~rtResult.success
  /\ rtInvocations = 2 /\ rtConfig.maxAttempts > 2
  /\ FailsRetryably(1) /\ FailsForGood(2)
  /\ Len(rtDelays) = 1

\* C17: with maxAttempts >= 1 an operation that always fails retryably is
\* invoked exactly maxAttempts times; the call then ends and answers a
\* failure with attempts = maxAttempts and the last error thrown.
C17_GivesUpAfterMaxAttempts ==
  /\ []( ( /\ rtConfig.maxAttempts >= 1
           /\ \A i \in 1..rtConfig.maxAttempts : FailsRetryably(i) )
         => /\ rtInvocations <= rtConfig.maxAttempts
            /\ rtPc = "done" =>
                 /\ rtInvocations = rtConfig.maxAttempts
                 /\ rtResult =
                      [success |-> FALSE, result |-> 0,
                       error |-> Thrown(rtScript[rtConfig.maxAttempts],
                                        rtConfig.maxAttempts),
                       attempts |-> rtConfig.maxAttempts] )
  /\ <>(rtPc = "done")

\* C17 witness: the call gave up after several retryable failures
C17_Witness ==
  /\ rtPc = "done" /\ ~rtResult.success
  /\ rtConfig.maxAttempts >= 2
  /\ rtInvocations = rtConfig.maxAttempts
  /\ \A i \in 1..rtConfig.maxAttempts : FailsRetryably(i)
  /\ rtScript[1] # rtScript[2]

\* C23: in a run that makes at least one attempt, the k-th delay, applied
\* after failed attempt k, is min(f(k), 30000) with f(k) = backoffMs for
\* fixed, backoffMs * k for linear and backoffMs * multiplier^(k-1) for
\* exponential, and lies between min(f(k), 30000) and 30000 for jittered
\* exponential; k delays have been applied when attempt k + 1 is made, and
\* a finished run of n attempts has applied exactly n - 1 delays.
C23_DelaysFollowPolicy ==
  LET f(k) ==
        CASE rtConfig.strategy = "fixed_delay" -> rtConfig.backoffMs
          [] rtConfig.strategy = "linear_backoff" -> rtConfig.backoffMs * k
          [] OTHER ->
               rtConfig.backoffMs * Pow(rtConfig.backoffMultiplier, k - 1)
  IN  /\ \A k \in DOMAIN rtDelays :
           /\ k < rtConfig.maxAttempts
           /\ rtDelays[k] <= 30000
           /\ rtDelays[k] >= Min(f(k), 30000)
           /\ rtConfig.strategy # "jittered_backoff"
                => rtDelays[k] = Min(f(k), 30000)
      /\ rtPc = "operation" => Len(rtDelays) = rtAttempt - 1
      /\ rtPc = "sleep" => Len(rtDelays) = rtAttempt
      /\ (rtPc = "done" /\ rtAttempt >= 1) => Len(rtDelays) = rtAttempt - 1

\* C23 witness: a run of three attempts under exponential backoff has ended
\* after two delays, the second one cut to the ceiling
C23_Witness ==
  /\ rtPc = "done"
  /\ rtAttempt = 3 /\ rtConfig.maxAttempts = 3
  /\ rtConfig.strategy = "exponential_backoff"
  /\ rtDelays = <<rtConfig.backoffMs, 30000>>
  /\ rtConfig.backoffMs * rtConfig.backoffMultiplier > 30000

(***************************************************************************)
(* Properties of the circuit breaker                                       *)
(***************************************************************************)
\* caller c makes an execute() call in this step
Executes(c) ==
  breakerCall[c].pc = "idle" /\ breakerCall'[c] # breakerCall[c]

\* the operation of caller c completes in this step with the given outcome
Completes(c, outcome) ==
  breakerCall[c].pc = "operation" /\ breakerCall'[c].outcome = outcome

\* C18: a success resets failureCount to 0; the failure that makes
\* failureThreshold consecutive failures in Closed opens the breaker; and
\* every execute() made after that many consecutive failures, or with the
\* breaker Open, while now - lastFailureTime < recoveryTimeMs is answered
\* 'Circuit is OPEN' without the operation being invoked.
C18_OpenRejectsUntilRecovery ==
  /\ [][\A c \in Callers :
          Completes(c, "returned") => breaker'.failureCount = 0]_vars
  /\ [][\A c \in Callers :
          ( /\ Completes(c, "thrown")
            /\ breaker.state = "CLOSED"
            /\ breakerStreak' >= breakerParams.failureThreshold )
          => breaker'.state = "OPEN"]_vars
  /\ [][\A c \in Callers :
          ( /\ Executes(c)
            /\ \/ breaker.state = "OPEN"
               \/ breakerStreak >= breakerParams.failureThreshold
            /\ Recovering )
          => /\ breakerCall'[c].pc = "idle"
             /\ breakerCall'[c].outcome = "circuitOpen"
             /\ breaker' = breaker]_vars

\* C18 witness: two consecutive failures have opened the breaker and a
\* call made during the recovery time was refused
C18_Witness ==
  /\ breaker.state = "OPEN" /\ Recovering
  /\ breakerParams.failureThreshold >= 2
  /\ breakerStreak = breakerParams.failureThreshold
  /\ \E c \in Callers : breakerCall[c].outcome = "circuitOpen"

\* C19: while the trial call that was let through after the recovery time
\* has not completed, no other execute() gets its operation invoked.
C19_OneTrialAtATime ==
  [][\A c, d \in Callers :
       ( /\ c # d
         /\ breakerCall[d].pc = "operation" /\ breakerCall[d].trial
         /\ Executes(c) )
       => breakerCall'[c].pc # "operation"]_vars

\* C21: an operation that fails while the breaker is HALF_OPEN puts the
\* breaker back to OPEN, also when trial calls of the same HALF_OPEN period
\* have succeeded before it.
C21_HalfOpenFailureReopens ==
  [][\A c \in Callers :
       (Completes(c, "thrown") /\ breaker.state = "HALF_OPEN")
       => breaker'.state = "OPEN"]_vars

\* reset() is the step taken
ResetStep == breaker' = ClosedBreaker /\ breakerCall' = breakerCall

C20_SetThenGet ==
  /\ [][\A key \in CacheKeys :
          ( /\ cacheLastSet.key = key
            /\ cacheNow - cacheLastSet.at < cacheLastSet.ttl
            /\ CacheGet(key) )
          => cacheRet' = [hit |-> TRUE, data |-> cacheLastSet.data]]_vars
  /\ [][\A key \in CacheKeys :
          ( /\ key \in CacheKeysStored
            /\ \/ /\ cacheLastSet.key = key
                  /\ cacheNow - cacheLastSet.at > cacheLastSet.ttl
               \/ LET entry == cache[EntryIndex(cache, key)]
                  IN  cacheNow - entry.timestamp > entry.ttl
            /\ CacheGet(key) \/ CacheHas(key) )
          => /\ ~cacheRet'.hit
             /\ key \notin {cache'[i].key : i \in DOMAIN cache'}
             /\ Len(cache') = Len(cache) - 1]_vars

\* C20 witness: the last set evicted an entry of a full cache and, after
\* time has passed, a get has returned its value
C20_Witness ==
  /\ cacheLastSet.evicted
  /\ cacheNow > cacheLastSet.at
  /\ cacheRet = [hit |-> TRUE, data |-> cacheLastSet.data]
  /\ cacheLastSet.key \in CacheKeysStored
  /\ cache[EntryIndex(cache, cacheLastSet.key)].accessCount = 2
  /\ Len(cache) = 1 \/ cache[1].data # cache[2].data

\* set(key, ...) is the step taken
SetStep(key) ==
  \E data \in CacheValues, ttl \in CacheTtls : CacheSet(key, data, ttl)

\* C24: with maxSize >= 1 and every eviction policy, whatever calls of set,
\* get, has, delete, deleteByPrefix, cleanup and clear are made, the cache
\* never holds more than maxSize entries; a set of a key that is not stored
\* into a full cache removes exactly one stored entry; and a set of a stored
\* key removes no entry.
C24_SizeWithinMaxSize ==
  /\ [](cacheConfig.maxSize >= 1 => Len(cache) <= cacheConfig.maxSize)
  /\ [][\A key \in CacheKeysWithEmpty :
          ( /\ key \notin CacheKeysStored
            /\ Len(cache) >= cacheConfig.maxSize
            /\ SetStep(key) )
          => \E victim \in CacheKeysStored :
               {cache'[i].key : i \in DOMAIN cache'}
                 = (CacheKeysStored \ {victim}) \cup {key}]_vars
  /\ [][\A key \in CacheKeysWithEmpty :
          (key \in CacheKeysStored /\ SetStep(key))
          => {cache'[i].key : i \in DOMAIN cache'} = CacheKeysStored]_vars

\* the stored keys in the order of their last set or successful get
StoredByLastUse ==
  SelectSeq(cacheUseOrder, LAMBDA k : k \in CacheKeysStored)

\* C25: under LRU, accessOrder holds exactly the stored keys, each once, in
\* the order of their last set or successful get; and an entry that a set
\* of a key not stored removes from a full cache is the stored entry whose
\* last set or successful get is the oldest, and the only one removed.
C25_LruOrder ==
  /\ [](cacheConfig.strategy = "lru"
        => /\ {accessOrder[i] : i \in DOMAIN accessOrder} = CacheKeysStored
           /\ Len(accessOrder) = Len(cache)
           /\ accessOrder = StoredByLastUse)
  /\ [][\A key \in CacheKeysWithEmpty :
          ( /\ cacheConfig.strategy = "lru"
            /\ key \notin CacheKeysStored
            /\ Len(cache) >= cacheConfig.maxSize
            /\ SetStep(key) )
          => \A gone \in CacheKeysStored :
               gone \notin {cache'[i].key : i \in DOMAIN cache'}
               => gone = StoredByLastUse[1]]_vars

\* C25 witness: under LRU with room for two entries, the entry set first
\* was read after the second was set, and a third key then evicted the
\* second
C25_Witness ==
  /\ cacheConfig = [maxSize |-> 2, strategy |-> "lru"]
  /\ cacheLastSet.evicted
  /\ Len(cache) = 2
  /\ cache[1].accessCount = 2
  /\ accessOrder = <<cache[1].key, cache[2].key>>
  /\ cacheLastSet.key = cache[2].key
  /\ Len(cacheUseOrder) = 3
  /\ cacheUseOrder[1] \notin CacheKeysStored

(***************************************************************************)
(* Properties of the swap service                                          *)
(***************************************************************************)
\* the cache holds an entry for the key of the request that was stored no
\* more than 30 s ago
LiveQuote(request) ==
  \E i \in DOMAIN swCache :
    /\ swCache[i].key = generateQuoteKey(request)
    /\ swNow - swCache[i].timestamp <= 30000

\* the quote held for the key of the request
HeldQuote(request) ==
  swCache[EntryIndex(swCache, generateQuoteKey(request))].data

\* call r enters getQuote in this step: it is called by the user, or by
\* executeSwap once the request has passed validation
EntersGetQuote(r) ==
  \/ swRun[r] = NoRun /\ swRun'[r].kind = "quote"
  \/ /\ swRun[r].pc = "validate"
     /\ swEvents'[r] # swEvents[r]
     /\ swEvents'[r][Len(swEvents[r]) + 1] = "QUOTE_REQUESTED"

\* the aggregator calls for a quote that call r has made
QuoteCalls(calls) == SelectSeq(calls, LAMBDA c : c = "getQuote")

Position(events, e) ==
  IF \E i \in DOMAIN events : events[i] = e
    THEN CHOOSE i \in DOMAIN events :
           events[i] = e /\ \A j \in 1..(i - 1) : events[j] # e
    ELSE 0

Emitted(events, e) == Position(events, e) > 0

\* how often e is among the events
Occurrences(events, e) == Len(SelectSeq(events, LAMBDA x : x = e))

\* when b was emitted, a was emitted before it
Precedes(events, a, b) ==
  Emitted(events, b)
    => Emitted(events, a) /\ Position(events, a) < Position(events, b)

\* the events of the chain that every successful swap emits, in order
MandatoryChain ==
  <<"SWAP_INITIATED", "SIMULATION_STARTED", "SIMULATION_COMPLETED",
    "TRANSACTION_SUBMITTED", "TRANSACTION_CONFIRMED", "SWAP_COMPLETED">>

\* the chain of a service whose simulation gate is switched off
ChainWithoutSimulation ==
  <<"SWAP_INITIATED", "TRANSACTION_SUBMITTED", "TRANSACTION_CONFIRMED",
    "SWAP_COMPLETED">>

\* the events of the chain that come after the approval step
AfterApproval ==
  {"SIMULATION_STARTED", "SIMULATION_COMPLETED", "TRANSACTION_SUBMITTED",
   "TRANSACTION_CONFIRMED", "SWAP_COMPLETED"}

\* the events respect the chain: each event of the chain at most once and
\* only after all earlier ones, and the approval pair between
\* SWAP_INITIATED and what follows it
RespectsChain(events, chain) ==
  /\ \A j \in DOMAIN chain :
       /\ Occurrences(events, chain[j]) <= 1
       /\ \A i \in 1..(j - 1) : Precedes(events, chain[i], chain[j])
  /\ Occurrences(events, "APPROVAL_REQUIRED") <= 1
  /\ Occurrences(events, "APPROVAL_COMPLETED") <= 1
  /\ Precedes(events, "SWAP_INITIATED", "APPROVAL_REQUIRED")
  /\ Precedes(events, "APPROVAL_REQUIRED", "APPROVAL_COMPLETED")
  /\ \A e \in AfterApproval :
       (Emitted(events, "APPROVAL_REQUIRED") /\ Emitted(events, e))
       => Precedes(events, "APPROVAL_COMPLETED", e)

\* run r emits event e in this step
Emits(r, e) ==
  \E i \in (Len(swEvents[r]) + 1)..Len(swEvents'[r]) : swEvents'[r][i] = e

\* the approval step of run r is over: none was needed, or the one that
\* was needed is completed
ApprovalFinished(r) ==
  /\ swRun[r].pc \in {"send"}
  /\ Emitted(swEvents[r], "APPROVAL_REQUIRED")
       => /\ Emitted(swEvents[r], "APPROVAL_COMPLETED")
          /\ "approval" \in {swChain[r][i] : i \in DOMAIN swChain[r]}

\* APPROVAL_COMPLETED is emitted by the step in which the wait for the
\* approval transaction, which was broadcast before, ends; and the swap
\* transaction is broadcast only when the approval step is over
ApprovalSteps ==
  [][\A r \in Runs :
       /\ Emits(r, "APPROVAL_COMPLETED")
            => /\ swRun[r].pc = "approveWait"
               /\ swChain[r] = <<"approval">>
       /\ (swChain'[r] # swChain[r] /\ swChain'[r][Len(swChain'[r])] = "swap")
            => ApprovalFinished(r)]_vars

\* C27 as stated: the events of every executeSwap run respect the order
\* SWAP_INITIATED, optionally APPROVAL_REQUIRED and APPROVAL_COMPLETED,
\* SIMULATION_STARTED, SIMULATION_COMPLETED, TRANSACTION_SUBMITTED,
\* TRANSACTION_CONFIRMED, SWAP_COMPLETED.
C27_EventsRespectChain ==
  \A r \in Runs :
    swRun[r].kind = "swap" => RespectsChain(swEvents[r], MandatoryChain)

\* C27, amended: with the simulation gate enabled the events of every
\* executeSwap run respect that order; with the gate disabled they respect
\* the order without the two simulation events, which are then never
\* emitted; APPROVAL_COMPLETED is emitted only when the approval
\* transaction is confirmed, and the swap transaction is submitted only
\* after the approval step has finished.
C27_EventsRespectConfiguredChain ==
  /\ [](\A r \in Runs :
         swRun[r].kind = "swap"
         => IF swOptions.simulationEnabled
              THEN RespectsChain(swEvents[r], MandatoryChain)
              ELSE /\ RespectsChain(swEvents[r], ChainWithoutSimulation)
                   /\ ~Emitted(swEvents[r], "SIMULATION_STARTED")
                   /\ ~Emitted(swEvents[r], "SIMULATION_COMPLETED"))
  /\ ApprovalSteps

\* C27 witness: a swap with the gate enabled that needed an approval has
\* completed and emitted the whole chain
C27_Witness ==
  \E r \in Runs :
    /\ swOptions.simulationEnabled
    /\ swRun[r].kind = "swap" /\ swRun[r].pc = "done"
    /\ swRun[r].result.success
    /\ Emitted(swEvents[r], "APPROVAL_COMPLETED")
    /\ Emitted(swEvents[r], "SWAP_COMPLETED")
    /\ swChain[r] = <<"approval", "swap">>

\* the transactions that run r has broadcast
Broadcast(r) == {swChain[r][i] : i \in DOMAIN swChain[r]}

\* C28: with simulation enabled, a swap whose built transaction is rejected
\* for an empty destination or an empty payload ends as failed with no
\* transaction broadcast by this swap, and a swap transaction is only ever
\* submitted after SIMULATION_COMPLETED.
C28_RejectedBuildBroadcastsNothing ==
  \A r \in Runs :
    (swOptions.simulationEnabled /\ swRun[r].kind = "swap")
    => /\ (swRun[r].pc = "done" /\ swRun[r].txData \in {"emptyTo", "emptyData"})
            => ~swRun[r].result.success /\ Broadcast(r) = {}
       /\ "swap" \in Broadcast(r)
            => Emitted(swEvents[r], "SIMULATION_COMPLETED")

\* the receipt of the swap transaction of run r shows a failure: it is
\* reverted (status 0) or there is none
ReceiptFailed(r) ==
  swRun[r].kind = "swap" /\ swRun[r].receipt \in {"reverted", "null"}

\* C29: when the receipt of the submitted swap transaction is reverted or
\* missing, the swap has failed: the result has success = false and the
\* code TRANSACTION_FAILED, SWAP_FAILED is emitted (once, as the last
\* event) and the failure is counted under that code, neither
\* TRANSACTION_CONFIRMED nor SWAP_COMPLETED is emitted, and successfulSwaps
\* and the volume and gas metrics are left as they were.
C29_FailedReceiptFailsSwap ==
  /\ [](\A r \in Runs :
         ReceiptFailed(r)
         => /\ swRun[r].pc = "done"
            /\ ~swRun[r].result.success
            /\ swRun[r].result.errorCode = "TRANSACTION_FAILED"
            /\ Occurrences(swEvents[r], "SWAP_FAILED") = 1
            /\ swEvents[r][Len(swEvents[r])] = "SWAP_FAILED"
            /\ ~Emitted(swEvents[r], "TRANSACTION_CONFIRMED")
            /\ ~Emitted(swEvents[r], "SWAP_COMPLETED")
            /\ Emitted(swEvents[r], "TRANSACTION_SUBMITTED"))
  /\ [][\A r \in Runs :
          (~ReceiptFailed(r) /\ ReceiptFailed(r)')
          => /\ swMetrics'.successfulSwaps = swMetrics.successfulSwaps
             /\ swMetrics'.volumeUpdates = swMetrics.volumeUpdates
             /\ swMetrics'.gasUpdates = swMetrics.gasUpdates
             /\ swMetrics'.failedSwaps = swMetrics.failedSwaps + 1
             /\ swMetrics'.errorBreakdown =
                  [swMetrics.errorBreakdown EXCEPT
                     !["TRANSACTION_FAILED"] = @ + 1]]_vars

\* C29 witness: one swap was confirmed and counted, and another one, whose
\* transaction was reverted, has failed with TRANSACTION_FAILED
C29_Witness ==
  \E r, q \in Runs :
    /\ swRun[r].kind = "swap" /\ swRun[r].pc = "done"
    /\ swRun[r].receipt = "reverted"
    /\ swRun[r].result.errorCode = "TRANSACTION_FAILED"
    /\ "swap" \in Broadcast(r)
    /\ swRun[q].kind = "swap" /\ swRun[q].result.success
    /\ swMetrics.successfulSwaps = 1
    /\ swMetrics.failedSwaps = 1

\* the getQuote call of run r, made by the user or by executeSwap, has
\* emitted QUOTE_REQUESTED and, once it is over, after it exactly one of
\* QUOTE_RECEIVED and QUOTE_FAILED
QuoteEventsOnce(r) ==
  LET events == swEvents[r]
      ended == Occurrences(events, "QUOTE_RECEIVED")
                 + Occurrences(events, "QUOTE_FAILED")
      inQuote == swRun[r].pc \in {"fetch", "sleep"}
  IN  /\ Occurrences(events, "QUOTE_REQUESTED") <= 1
      /\ Precedes(events, "QUOTE_REQUESTED", "QUOTE_RECEIVED")
      /\ Precedes(events, "QUOTE_REQUESTED", "QUOTE_FAILED")
      /\ ended = (IF Emitted(events, "QUOTE_REQUESTED") /\ ~inQuote
                    THEN 1 ELSE 0)
      /\ swRun[r].kind = "quote"
           => /\ Emitted(events, "QUOTE_REQUESTED")
              /\ swRun[r].pc = "done"
                   => (swRun[r].result.success
                         <=> Emitted(events, "QUOTE_RECEIVED"))

\* the executeSwap call of run r has emitted neither SWAP_COMPLETED nor
\* SWAP_FAILED while it runs and exactly one of them, the one that matches
\* response.success, when it has returned
SwapEventsOnce(r) ==
  LET events == swEvents[r]
      ended == Occurrences(events, "SWAP_COMPLETED")
                 + Occurrences(events, "SWAP_FAILED")
  IN  swRun[r].kind = "swap"
      => /\ ended = (IF swRun[r].pc = "done" THEN 1 ELSE 0)
         /\ swRun[r].pc = "done"
              => (swRun[r].result.success
                    <=> Emitted(events, "SWAP_COMPLETED"))

TerminalEventsOnce == \A r \in Runs : QuoteEventsOnce(r) /\ SwapEventsOnce(r)

\* C30: with events enabled every getQuote call emits QUOTE_REQUESTED and
\* then exactly one of QUOTE_RECEIVED and QUOTE_FAILED, every executeSwap
\* call has emitted exactly one of SWAP_COMPLETED and SWAP_FAILED, matching
\* response.success, when it returns, and a swap whose transaction was
\* reverted on the chain has emitted TRANSACTION_FAILED.
C30_TerminalEventsEmitted ==
  swOptions.enableEvents
  => /\ TerminalEventsOnce
     /\ \A r \in Runs :
          (swRun[r].kind = "swap" /\ swRun[r].receipt = "reverted")
          => Emitted(swEvents[r], "TRANSACTION_FAILED")

\* run r is an executeSwap call on a service without a signer, or with a
\* request that validateCompleteSwapRequest rejects: a malformed address,
\* a zero amount or an insufficient balance
RejectedSwap(r) ==
  /\ swRun[r].kind = "swap"
  /\ \/ ~swOptions.hasWallet
     \/ ~validateQuoteRequest(swRun[r].request)
     \/ swRun[r].balance = "insufficient"

\* run r has returned a failure and has neither broadcast a transaction
\* nor called the aggregator
FailedWithoutEffect(r) ==
  /\ swRun[r].pc \in {"validate", "done"}
  /\ swRun[r].pc = "done" => ~swRun[r].result.success
  /\ swChain[r] = << >>
  /\ swAggCalls[r] = << >>

\* C31 as stated: executeSwap without a signer, or with a malformed
\* address, a zero amount, an insufficient balance or an insufficient
\* allowance, returns a failure without any approval or swap transaction
\* and without any aggregator call.
C31_RejectedSwapHasNoEffect ==
  \A r \in Runs :
    (RejectedSwap(r) \/ swRun[r].allowance = "insufficient")
    => /\ swRun[r].result.success = FALSE
       /\ swChain[r] = << >>
       /\ swAggCalls[r] = << >>

\* C31, amended: executeSwap without a signer, or with a malformed address,
\* a zero amount or an insufficient balance, returns the failure
\* INVALID_PARAMETERS without any approval or swap transaction and without
\* any aggregator call; an insufficient allowance is not a failure: it is
\* found after the quote was obtained and answered by the approval.
C31_InvalidSwapHasNoEffect ==
  /\ [](\A r \in Runs :
         RejectedSwap(r)
         => /\ FailedWithoutEffect(r)
            /\ swRun[r].pc = "done"
                 => swRun[r].result.errorCode = "INVALID_PARAMETERS")
  /\ [](\A r \in Runs :
         swRun[r].allowance = "insufficient"
         => /\ ~RejectedSwap(r)
            /\ Emitted(swEvents[r], "QUOTE_RECEIVED")
            /\ Emitted(swEvents[r], "APPROVAL_REQUIRED"))

\* C31 witness: one executeSwap was rejected for a zero amount and another
\* for an insufficient balance, both without any effect
C31_Witness ==
  \E r, q \in Runs :
    /\ swOptions.hasWallet
    /\ swRun[r].kind = "swap" /\ swRun[r].pc = "done"
    /\ swRun[r].request.amount = "0"
    /\ swRun[q].kind = "swap" /\ swRun[q].pc = "done"
    /\ validateQuoteRequest(swRun[q].request)
    /\ swRun[q].balance = "insufficient"
    /\ FailedWithoutEffect(r) /\ FailedWithoutEffect(q)

(***************************************************************************)
(* Properties of the event emitter                                         *)
(***************************************************************************)
\* C32: after any sequence of emit calls the history holds at most 1000
\* events, namely the most recent min(n, 1000) of the n events emitted, in
\* the order of their emission, and the event of an emit is in the history
\* when its listeners are notified.
C32_HistoryHoldsNewest ==
  /\ Len(evHistory) <= 1000
  /\ Len(evHistory) = Min(evEmitted, 1000)
  /\ \A i \in DOMAIN evHistory :
       evHistory[i].seq = evEmitted - Len(evHistory) + i
  /\ evLast.op = "emit" => evLast.seen

\* C32 witness: two events more than the history holds were emitted to a
\* listener of the type and a global listener; the history is full and
\* starts with the third event
C32_Witness ==
  /\ evEmitted = 1002
  /\ Len(evHistory) = 1000
  /\ evHistory[1].seq = 3
  /\ evLast.op = "emit" /\ evLast.notified = {"cb1", "cb2"} /\ evLast.seen

\* C33: in getQuote a fetch that fails with a network error or with an API
\* error of the provider is attempted again until it succeeds or maxAttempts
\* attempts were made, and only then QUOTE_FAILED is emitted and the error
\* given to the caller: a getQuote that called the aggregator and has
\* emitted QUOTE_FAILED has called it maxAttempts times.
C33_FetchFailuresUseTheBudget ==
  \A r \in Runs :
    ( /\ Emitted(swEvents[r], "QUOTE_FAILED")
      /\ QuoteCalls(swAggCalls[r]) # << >> )
    => /\ swRun[r].result.errorCode \in {"NETWORK_ERROR", "API_ERROR"}
       /\ Len(QuoteCalls(swAggCalls[r])) = NetworkRetryConfig.maxAttempts

\* C34: a call of an unsubscribe function that on() returned, or of off(),
\* removes only the callback it names: every other callback that emit
\* would notify before the call, for any event type, is notified after it
\* too, and an emit notifies all the callbacks subscribed to its type.
C34_UnsubscribeRemovesOnlyItsCallback ==
  /\ [][evLast'.op \in {"unsubscribe", "off"}
        => \A type \in EventTypes : \A callback \in Subscribed(type) :
             (type = evLast'.type /\ callback = evLast'.callback)
             \/ callback \in Subscribed(type)']_vars
  /\ [][\A type \in EventTypes :
          (evEmitted' = evEmitted + 1 /\ evLast'.type = type)
          => evLast'.notified = Subscribed(type) \cup evGlobal]_vars

(***************************************************************************)
(* Properties of smartRetry                                                *)
(***************************************************************************)
\* C35: when smartRetry has returned, the operation was invoked at most
\* maxAttempts times of the manager selected, the attempts reported are the
\* number of invocations made, and an operation whose first failure is not
\* retryable for the manager selected was invoked exactly once.
C35_SmartRetryCountsInvocations ==
  rtPc = "done"
  => /\ rtResult.attempts = rtInvocations
     /\ rtConfig # NoManager => rtInvocations <= rtConfig.maxAttempts
     /\ ( /\ rtThrown # << >>
          /\ ~isRetryableError(rtThrown[1], rtConfig.retryableErrors) )
        => rtInvocations = 1

(***************************************************************************)
(* Properties of the swap metrics                                          *)
(***************************************************************************)
RECURSIVE SumOver(_, _)
\* the sum of the counts of the codes
SumOver(counts, codes) ==
  IF codes = {} THEN 0
  ELSE LET code == CHOOSE c \in codes : TRUE
       IN  counts[code] + SumOver(counts, codes \ {code})

\* an executeSwap call is in progress
SwapInProgress ==
  \E r \in Runs : swRun[r].kind = "swap" /\ swRun[r].pc # "done"

\* C36: when no executeSwap call is in progress, totalSwaps is
\* successfulSwaps + failedSwaps and the counts of errorBreakdown sum to
\* failedSwaps; at any time successfulSwaps + failedSwaps is at most
\* totalSwaps.
C36_MetricsAddUp ==
  /\ swMetrics.successfulSwaps + swMetrics.failedSwaps <= swMetrics.totalSwaps
  /\ ~SwapInProgress
       => /\ swMetrics.totalSwaps =
               swMetrics.successfulSwaps + swMetrics.failedSwaps
          /\ SumOver(swMetrics.errorBreakdown, SwapErrorCodes) =
               swMetrics.failedSwaps

(***************************************************************************)
(* Properties of activeRetries                                             *)
(***************************************************************************)
\* C37: activeRetries holds an operationId exactly while an
\* executeWithRetry call started with that id is running, whatever other
\* executeWithRetry and cancelRetry calls are made meanwhile.
C37_ActiveExactlyWhileRunning ==
  \A operationId \in OperationIds \ {""} :
    arActive[operationId] # 0
      <=> \E c \in ActiveCalls :
            Running(c) /\ arCalls[c].id = operationId

(***************************************************************************)
(* Properties of the time synchronisation                                  *)
(***************************************************************************)
SyncIds == 1..Len(tsPromises)

\* the syncs whose fetchServerTime has not yet returned or thrown
FetchesInProgress == {p \in SyncIds : tsPromises[p].pc = "fetching"}

\* the handler of .catch of a sync has run
Caught(p) == tsPromises[p].pc \in {"caught", "settled"}

\* at most one fetch is in progress, the callers that are waiting for an
\* unsettled sync all wait for the one syncPromise holds, and syncPromise
\* is null exactly when every sync has settled
SingleFlight ==
  /\ Cardinality(FetchesInProgress) <= 1
  /\ \A c \in SyncCallers :
       /\ tsCallers[c].pc = "awaiting"
       /\ tsPromises[tsCallers[c].awaits].pc # "settled"
       => tsCallers[c].awaits = tsSyncPromise
  /\ \A p \in SyncIds :
       tsPromises[p].pc = "settled" <=> p # tsSyncPromise

\* a sync that fails after an earlier success keeps the offset and is not
\* raised, and no caller fails on it
FailureAfterSuccessIsSwallowed ==
  /\ \A p \in SyncIds :
       Caught(p) /\ tsPromises[p].failed /\ tsPromises[p].syncedBefore
       => /\ ~tsPromises[p].rejected
          /\ tsPromises[p].offsetAfter = tsPromises[p].offsetBefore
  /\ \A c \in SyncCallers :
       tsCallers[c].last = "threw"
       => ~tsPromises[tsCallers[c].awaits].syncedBefore

\* C38 as stated: ensureTimeSync is single-flight, a failure after an
\* earlier success is swallowed with the offset kept, and the only sync
\* whose failure is raised is the very first one.
C38_OnlyFirstSyncRaises ==
  /\ SingleFlight
  /\ FailureAfterSuccessIsSwallowed
  /\ \A p \in SyncIds : tsPromises[p].rejected => p = 1

\* C38, amended: ensureTimeSync is single-flight, a failure after an
\* earlier success is swallowed with the offset kept, and the failure of
\* a sync is raised exactly when no sync has succeeded before it, be it
\* the first sync or a later one.
C38_SingleFlightSync ==
  /\ SingleFlight
  /\ FailureAfterSuccessIsSwallowed
  /\ \A p \in SyncIds :
       Caught(p)
       => (tsPromises[p].rejected
             <=> tsPromises[p].failed /\ ~tsPromises[p].syncedBefore)

\* two callers have awaited one sync that failed after an earlier success,
\* and both have returned
C38_Witness ==
  \E p \in SyncIds :
    /\ tsPromises[p].pc = "settled"
    /\ tsPromises[p].failed
    /\ tsPromises[p].syncedBefore
    /\ \A c \in SyncCallers :
         /\ tsCallers[c].awaits = p
         /\ tsCallers[c].pc = "idle"
         /\ tsCallers[c].last = "returned"

(***************************************************************************)
(* Properties of /verify for the other templates                           *)
(***************************************************************************)
\* the positions of the handler inside checkMintLimit and the mint leg
MintPositions ==
  {"cfgExists", "cfgSet", "cfgGet", "getCount", "incr", "executeSwap",
   "mintPush", "mintTrim"}

\* a request has been parsed and its template is not token-mint
OtherTemplateRequest(r) ==
  pc[r] # "idle" /\ req[r] # NoReq /\ req[r].templateId # TokenMint

\* C39: a /verify request whose templateId is not 'token-mint' never reads
\* or increments a mint counter, never invokes the swap service and never
\* appends a MintRecord; its steps leave the template configuration, the
\* counter and the mint records as they are, its only write is the
\* PaymentRecord under its nonce, made once after a successful settlement,
\* and its success response has mint_record = null.
C39_OtherTemplateLeavesMintAlone ==
  [][\A r \in Reqs :
       OtherTemplateRequest(r)' =>
         /\ pc'[r] \notin MintPositions
         /\ hist'[r].incrs = 0
         /\ hist'[r].swapCalls = 0
         /\ hist'[r].mintAppends = 0
         /\ ~hist'[r].configCreated
         /\ pc'[r] # pc[r] =>
              /\ UNCHANGED <<templateConfig, mintCount, mintRecords>>
              /\ \/ UNCHANGED paymentNonce
                 \/ /\ pc[r] = "savePayment"
                    /\ settlementSuccess(loc[r].settleResult)
                    /\ paymentNonce' =
                         [paymentNonce EXCEPT
                            ![req[r].nonce] = PaymentRecord(r)]
         /\ resp'[r].http = 200 =>
              /\ hist'[r].paymentWrites = 1
              /\ resp'[r].mint_record = NoMint
              /\ resp'[r].payment_record_id = req'[r].nonce
     ]_vars

\* a request of another template has been settled and answered with 200
\* while a token-mint request has gone through its mint leg
C39_Witness ==
  \E r, q \in Reqs :
    /\ OtherTemplateRequest(r)
    /\ pc[r] = "done"
    /\ resp[r].http = 200
    /\ hist[r].paymentWrites = 1
    /\ req[q].templateId = TokenMint
    /\ hist[q].mintAppends = 1

(***************************************************************************)
(* Properties of OkxClient.request                                         *)
(***************************************************************************)
\* an answer that reports a rate limit: HTTP 429, or an error response
\* whose body carries the code 50011
RateLimitedAnswer(answer) ==
  \/ answer.status = 429
  \/ answer.status \notin {0, 200} /\ answer.code = "50011"

\* at most 4 transmissions; every answer but the last was rate-limited and
\* was followed by a backoff of 500 * 2^attempt ms; the call ends at the
\* first answer of another kind with that answer's outcome, or with the
\* rate-limit error at the 4th rate-limited answer
BoundedTransmissions ==
  /\ Len(okAnswers) <= OkxMaxRetries + 1
  /\ \A k \in 1..Len(okAnswers) :
       k < Len(okAnswers) \/ okPc = "sleep" \/ okPc = "headers"
       => /\ RateLimitedAnswer(okAnswers[k])
          /\ k <= Len(okSleeps)
          /\ okSleeps[k] = OkxBackoffBaseMs * Pow(2, k - 1)
  /\ Len(okSleeps) <= Len(okAnswers)
  /\ okPc = "done" /\ okAnswers # << >>
       => LET last == okAnswers[Len(okAnswers)]
          IN  /\ okResult.after = Len(okAnswers)
              /\ Len(okSleeps) = Len(okAnswers) - 1
              /\ IF RateLimitedAnswer(last)
                   THEN /\ Len(okAnswers) = OkxMaxRetries + 1
                        /\ okResult.kind = "rate limit error"
                   ELSE okResult.kind =
                          IF last = [status |-> 200, code |-> "0"]
                            THEN "data"
                          ELSE IF last.status = 200 THEN "api error"
                          ELSE "http error"

\* C40: OkxClient.request ends after at most 4 transmissions: it
\* retransmits only after a rate-limited answer, with a backoff of
\* 500 * 2^attempt ms, surfaces any other failure after the transmission
\* in which it occurred, surfaces the rate-limit error after the 4th
\* rate-limited answer, and every call ends.
C40_RequestTerminates ==
  /\ []BoundedTransmissions
  /\ <>(okPc = "done")

\* four transmissions were answered with a rate limit and the call has
\* ended with the rate-limit error
C40_Witness ==
  /\ okPc = "done"
  /\ Len(okAnswers) = OkxMaxRetries + 1
  /\ \A k \in 1..Len(okAnswers) : RateLimitedAnswer(okAnswers[k])
  /\ okResult.kind = "rate limit error"
====
